---- MODULE Spec2Model ----
(***************************************************************************)
(* Naglfar Analytics: the event-graph loader (infrastructure/neo4j/src/    *)
(* load.py).  The graph store is modelled as the sequences of nodes and    *)
(* relationships it holds (a node's identity is its position), the Cypher  *)
(* statements of Neo4jDataLoader as operators on that graph, and load_data *)
(* as a process that issues them one transaction at a time.                *)
(***************************************************************************)
EXTENDS Integers, Sequences, FiniteSets, Bags, TLC

\* ------------------------------------------------------------------ bounds
\* Timestamps are ticks 0..MaxTs; a day is TicksPerDay ticks long.
MaxTs == 1
TicksPerDay == 2
\* Event nodes the graph may hold under Spec (all load_data runs together).
MaxEvents == 3
\* load_data's batch_size ranges over 1..MaxBatch.
MaxBatch == 2
\* Events passed to load_events_batch under SpecBatch (all calls together).
MaxDirect == 2

\* load.py:233 prints a progress line after every tenth batch.
ProgressEvery == 10

\* ------------------------------------------------------------------ values
\* Python None / JSON null / Cypher null.
NULL == "null"

Timestamps == 0..MaxTs
IPs == {"ip1", "ip2"}
SessionIds == {"s1", "s2"}
UserIds == {"u1"}
StoreIds == {"st1"}

RequiredFields == {"event_id", "timestamp", "client_ip"}
OptionalFields == {"session_id", "user_id", "store_id"}

RECURSIVE SetToSeq(_)
\* The elements of a finite set of integers, ascending.
SetToSeq(S) ==
    IF S = {} THEN <<>>
    ELSE LET m == CHOOSE x \in S : \A y \in S : x <= y
         IN  <<m>> \o SetToSeq(S \ {m})

\* An event as it stands in the JSON corpus: optional keys that have no
\* value are absent from the object.
RawEvent(r) ==
    [f \in {f \in DOMAIN r : f \in RequiredFields \/ r[f] # NULL} |-> r[f]]

\* dict.get(key): the value, or None when the key is absent.
Get(event, key) == IF key \in DOMAIN event THEN event[key] ELSE NULL

\* load_data's prepared_event: required keys by subscript, optional keys by
\* .get().  (action, status, user_agent, device_type, path, query, email,
\* auth_token_id, data and archived are copied the same way onto the Event
\* node and read by no statement of the loader; they are left out.)
PreparedEvent(event) ==
    [event_id   |-> event["event_id"],
     timestamp  |-> event["timestamp"],
     client_ip  |-> event["client_ip"],
     session_id |-> Get(event, "session_id"),
     user_id    |-> Get(event, "user_id"),
     store_id   |-> Get(event, "store_id")]

PreparedBatch(batch) == [k \in 1..Len(batch) |-> PreparedEvent(batch[k])]

\* ------------------------------------------------------------------ graph
EmptyGraph ==
    [events     |-> <<>>,
     ips        |-> <<>>,
     sessions   |-> <<>>,
     users      |-> <<>>,
     stores     |-> <<>>,
     rels       |-> <<>>,
     next_event |-> EmptyBag]

\* MATCH part of MERGE (n:Label {key: value}): the nodes with that key.
MatchIPAddress(ips, address) ==
    {j \in 1..Len(ips) : ips[j].address = address}
MatchSession(sessions, session_id) ==
    {j \in 1..Len(sessions) : sessions[j].session_id = session_id}
MatchUser(users, user_id) ==
    {j \in 1..Len(users) : users[j].user_id = user_id}
MatchStore(stores, store_id) ==
    {j \in 1..Len(stores) : stores[j].store_id = store_id}

\* Mutant of MergeIPAddress: CREATE where the statement has MERGE.
CreateIPAddress(ips, address, ts) ==
    Append(ips, [address |-> address, first_seen |-> ts, last_seen |-> ts])

\* MERGE (ip:IPAddress {address}) ON CREATE SET first_seen, last_seen
\*                                ON MATCH SET last_seen
MergeIPAddress(ips, address, ts) ==
    IF MatchIPAddress(ips, address) = {}
    THEN Append(ips, [address |-> address, first_seen |-> ts, last_seen |-> ts])
    ELSE [j \in 1..Len(ips) |->
            IF ips[j].address = address
            THEN [ips[j] EXCEPT !.last_seen = ts]
            ELSE ips[j]]

\* MERGE (s:Session {session_id}) ON CREATE SET created_at, last_activity
\*                                ON MATCH SET last_activity
MergeSession(sessions, session_id, ts) ==
    IF MatchSession(sessions, session_id) = {}
    THEN Append(sessions,
                [session_id |-> session_id, created_at |-> ts, last_activity |-> ts])
    ELSE [j \in 1..Len(sessions) |->
            IF sessions[j].session_id = session_id
            THEN [sessions[j] EXCEPT !.last_activity = ts]
            ELSE sessions[j]]

\* MergeUser with created_at set on a match as well.
MergeUserRestamps(users, user_id, ts) ==
    IF MatchUser(users, user_id) = {}
    THEN Append(users, [user_id |-> user_id, created_at |-> ts])
    ELSE [j \in 1..Len(users) |->
            IF users[j].user_id = user_id
            THEN [users[j] EXCEPT !.created_at = ts]
            ELSE users[j]]

\* MERGE (u:User {user_id}) ON CREATE SET created_at
MergeUser(users, user_id, ts) ==
    IF MatchUser(users, user_id) = {}
    THEN Append(users, [user_id |-> user_id, created_at |-> ts])
    ELSE users

\* MERGE (st:Store {store_id}) ON CREATE SET created_at
MergeStore(stores, store_id, ts) ==
    IF MatchStore(stores, store_id) = {}
    THEN Append(stores, [store_id |-> store_id, created_at |-> ts])
    ELSE stores

\* CREATE (e)-[:TYPE {timestamp}]->(n), once for every node n the MERGE bound.
\* (TARGETED_STORE also copies the event's path and query, left out as above.)
CreateRels(rels, type, e, targets, ts) ==
    rels \o [k \in 1..Cardinality(targets) |->
                [type |-> type, from |-> e, to |-> SetToSeq(targets)[k],
                 timestamp |-> ts]]

\* Mutant of IsNotNull: the FOREACH body runs for every event.
Unguarded(v) == TRUE

\* The guard of FOREACH (ignored IN CASE WHEN event.f IS NOT NULL ...).
IsNotNull(v) == v # NULL

\* One row of UNWIND $events AS event: statements 1 to 6 of the query.
LoadEvent(g, event) ==
    LET ts == event.timestamp
        e  == Len(g.events) + 1
        ips2 == MergeIPAddress(g.ips, event.client_ip, ts)
        r1 == CreateRels(g.rels, "ORIGINATED_FROM", e,
                         MatchIPAddress(ips2, event.client_ip), ts)
        sessions2 == IF IsNotNull(event.session_id)
                     THEN MergeSession(g.sessions, event.session_id, ts)
                     ELSE g.sessions
        r2 == IF IsNotNull(event.session_id)
              THEN CreateRels(r1, "IN_SESSION", e,
                              MatchSession(sessions2, event.session_id), ts)
              ELSE r1
        users2 == IF IsNotNull(event.user_id)
                  THEN MergeUser(g.users, event.user_id, ts)
                  ELSE g.users
        r3 == IF IsNotNull(event.user_id)
              THEN CreateRels(r2, "PERFORMED_BY", e,
                              MatchUser(users2, event.user_id), ts)
              ELSE r2
        stores2 == IF IsNotNull(event.store_id)
                   THEN MergeStore(g.stores, event.store_id, ts)
                   ELSE g.stores
        r4 == IF IsNotNull(event.store_id)
              THEN CreateRels(r3, "TARGETED_STORE", e,
                              MatchStore(stores2, event.store_id), ts)
              ELSE r3
    IN  [graph |-> [g EXCEPT !.events = Append(@, event),
                             !.ips = ips2,
                             !.sessions = sessions2,
                             !.users = users2,
                             !.stores = stores2,
                             !.rels = r4],
         \* rows leaving the MERGE of the IPAddress (FOREACH adds none)
         rows |-> Cardinality(MatchIPAddress(ips2, event.client_ip))]

RECURSIVE LoadRows(_, _, _)
LoadRows(g, events, rows) ==
    IF events = <<>> THEN [graph |-> g, events_created |-> rows]
    ELSE LET one == LoadEvent(g, Head(events))
         IN  LoadRows(one.graph, Tail(events), rows + one.rows)

\* Mutant of load_events_batch: the Event node is matched on its event_id
\* (MERGE instead of CREATE), so an event whose id the graph already holds
\* is left out.
MergeEventsBatch(g, events) ==
    LoadRows(g,
             SelectSeq(events,
                       LAMBDA ev : \A k \in 1..Len(g.events) :
                                      g.events[k].event_id # ev.event_id),
             0)

\* Neo4jDataLoader.load_events_batch: the graph after the statement commits
\* and the count(e) it returns.
load_events_batch(g, events) == LoadRows(g, events, 0)

\* ---------------------------------------------------------------- deriver
\* duration.between(a, b).milliseconds: the milliseconds of the duration's
\* seconds group; whole days are carried by its days group and not counted.
DurationMs(a, b) ==
    IF b >= a THEN (b - a) % TicksPerDay ELSE 0 - ((a - b) % TicksPerDay)

\* Cypher's = : null compared with anything is not true.
CypherEq(a, b) == a # NULL /\ b # NULL /\ a = b

\* MATCH (s:Session)<-[:IN_SESSION]-(e:Event): one row per relationship.
SessionRows(g) == {r \in 1..Len(g.rels) : g.rels[r].type = "IN_SESSION"}

\* Mutant of OrderByTimestamp: the ORDER BY is missing, rows come in any order.
Unordered(g, rows) ==
    {o \in [1..Cardinality(rows) -> rows] :
        \A a, b \in 1..Cardinality(rows) : a # b => o[a] # o[b]}

\* WITH s, e ORDER BY e.timestamp: the rows ascending by timestamp.  Cypher
\* leaves the order of rows with equal timestamps open, so every such
\* arrangement is an outcome.
OrderByTimestamp(g, rows) ==
    {o \in [1..Cardinality(rows) -> rows] :
        /\ \A a, b \in 1..Cardinality(rows) : a # b => o[a] # o[b]
        /\ \A k \in 1..(Cardinality(rows) - 1) :
              g.events[g.rels[o[k]].from].timestamp
                  <= g.events[g.rels[o[k + 1]].from].timestamp}

\* WITH s, collect(e) as events: the events of session node s, in row order.
Collect(g, o, s) ==
    LET OfS(r) == g.rels[r].to = s
        mine == SelectSeq(o, OfS)
    IN  [k \in 1..Len(mine) |-> g.rels[mine[k]].from]

\* UNWIND range(0, size(events)-2) as i WITH events[i], events[i+1]
\* WHERE current.session_id = next.session_id, with the time_delta_ms.
ConsecutivePairs(g, events) ==
    LET all == [k \in 1..(Len(events) - 1) |->
                   [from |-> events[k], to |-> events[k + 1],
                    time_delta_ms |->
                        DurationMs(g.events[events[k]].timestamp,
                                   g.events[events[k + 1]].timestamp)]]
        SameSession(p) == CypherEq(g.events[p.from].session_id,
                                   g.events[p.to].session_id)
    IN  SelectSeq(all, SameSession)

\* Mutant of AllPairs: the events of all sessions are collected into one list
\* and neighbours are linked whatever their session.
UngroupedPairs(g, o, s) ==
    [k \in 1..(Len(o) - 1) |->
        [from |-> g.rels[o[k]].from, to |-> g.rels[o[k + 1]].from,
         time_delta_ms |->
             DurationMs(g.events[g.rels[o[k]].from].timestamp,
                        g.events[g.rels[o[k + 1]].from].timestamp)]]

RECURSIVE AllPairs(_, _, _)
\* The rows that reach the MERGE: the pairs of every session node from s on.
AllPairs(g, o, s) ==
    IF s > Len(g.sessions) THEN <<>>
    ELSE ConsecutivePairs(g, Collect(g, o, s)) \o AllPairs(g, o, s + 1)

\* MERGE (current)-[:NEXT_EVENT {time_delta_ms}]->(next) for one row: the
\* relationships after it (a bag: [from, to, time_delta_ms] |-> how many)
\* and the rows it passes on, one per relationship matched or the one created.
MergeNextEvent(next_event, p) ==
    IF BagIn(p, next_event)
    THEN [next_event |-> next_event, rows |-> CopiesIn(p, next_event)]
    ELSE [next_event |-> next_event (+) SetToBag({p}), rows |-> 1]

RECURSIVE MergeRows(_, _, _)
MergeRows(next_event, pairs, rows) ==
    IF pairs = <<>>
    THEN [next_event |-> next_event, relationships_created |-> rows]
    ELSE LET one == MergeNextEvent(next_event, Head(pairs))
         IN  MergeRows(one.next_event, Tail(pairs), rows + one.rows)

\* Neo4jDataLoader.create_temporal_relationships: every outcome of the
\* statement, as the graph after it and the count(*) it returns.
create_temporal_relationships(g) ==
    {LET m == MergeRows(g.next_event, AllPairs(g, o, 1), 0)
     IN  [graph |-> [g EXCEPT !.next_event = m.next_event],
          relationships_created |-> m.relationships_created] :
        o \in OrderByTimestamp(g, SessionRows(g))}

\* ------------------------------------------------------------------ state
VARIABLES
    graph,            \* the graph store
    pc,               \* where load_data stands: "idle", "batches", "done", "raised"
    corpus,           \* load_data: events, read from the input file
    batch_size,       \* load_data: batch_size
    i,                \* load_data: the loop index
    total_created,    \* load_data: total_created
    temporal_count,   \* load_data: temporal_count
    stdout,           \* the lines the current run has printed
    derived,          \* history: the deriver ran and no Event was added since
    calls,            \* history: the batches passed to load_events_batch directly
    expected,         \* parse_expected_count: the argument
    parsed,           \* parse_expected_count: what the call returned or raised
    prog,             \* the command-line program that runs, "none" for none
    cpc,              \* where that program stands
    scenario_name,    \* args.name
    scenario_data,    \* self.scenario_data
    total_assertions,     \* AssertionRunner.total_assertions
    passed_assertions,    \* AssertionRunner.passed_assertions
    failed_assertions,    \* AssertionRunner.failed_assertions
    assertion_index,  \* run_all_assertions: the loop index
    success,          \* what run_all_assertions returned
    results,          \* history: the run_assertion calls and what they returned
    queries,          \* history: the queries sent to the store
    stderr,           \* the error lines the program has printed
    exit_code,        \* the exit status, once cpc = "exited"
    events,           \* the event list of the generator that runs
    output,           \* the output file of the generator, Unset until written
    gen,              \* generate_test_data: count, start_date and its counters
    runs,             \* history: the seeded calls of generate_test_data that returned
    db,               \* the book store's Database instance
    response          \* history: the last book-store request and its answer

parse_vars == <<expected, parsed>>

runner_vars == <<total_assertions, passed_assertions, failed_assertions,
                 assertion_index, success, results, queries>>

gen_vars == <<events, output, gen, runs>>

cli_vars == <<prog, cpc, scenario_name, scenario_data, runner_vars, stderr,
              exit_code, gen_vars>>

\* The book store service.
shop_vars == <<db, response>>

\* The variables of the components other than the loader.
rest_vars == <<parse_vars, cli_vars, shop_vars>>

vars == <<graph, pc, corpus, batch_size, i, total_created, temporal_count,
          stdout, derived, calls, rest_vars>>

load_vars == <<pc, corpus, batch_size, i, total_created, temporal_count, stdout>>

LoaderInit ==
    /\ graph = EmptyGraph
    /\ pc = "idle"
    /\ corpus = <<>>
    /\ batch_size = 1
    /\ i = 0
    /\ total_created = 0
    /\ temporal_count = 0
    /\ stdout = <<>>
    /\ derived = FALSE
    /\ calls = <<>>

\* A variable that holds no value yet.
Unset == [unset |-> TRUE]

\* No call of parse_expected_count is under way.
ParserIdle ==
    /\ expected = Unset
    /\ parsed = Unset

\* What a program reads of a scenario file: the abuse_assertions, the event
\* offsets (minutes) of each of the scenarios, whether
\* fixture_config.time_range.start is given, and the noise_events count.
ScenarioData(assertions, scenarios, start, noise) ==
    [abuse_assertions |-> assertions, scenarios |-> scenarios,
     start |-> start, noise_count |-> noise]

\* self.scenario_data = {}: every key is missing.
EmptyScenario == ScenarioData(<<>>, <<>>, FALSE, 0)

\* No command-line program has been started; a fresh AssertionRunner has
\* empty scenario_data and its three counters at 0.
CliIdle ==
    /\ prog = "none"
    /\ cpc = "none"
    /\ scenario_name = NULL
    /\ scenario_data = EmptyScenario
    /\ total_assertions = 0
    /\ passed_assertions = 0
    /\ failed_assertions = 0
    /\ assertion_index = 0
    /\ success = Unset
    /\ results = <<>>
    /\ queries = <<>>
    /\ stderr = <<>>
    /\ exit_code = 0
    /\ events = <<>>
    /\ output = Unset
    /\ gen = Unset
    /\ runs = <<>>

\* ------------------------------------------------------- the book store
\* The stores the service answers for.
BookStores == {"store-1", "store-2"}

\* Database.is_valid_store: whether the service knows the store.
is_valid_store(store_id) == store_id \in BookStores

\* The users that hold a token: the seeded test user and one more.
Users == {1, 2}

\* The first two books _seed_data inserts, prices in cents.
SeedBooks ==
    (1 :> [id |-> 1, price |-> 4500, stock_count |-> 12])
    @@ (2 :> [id |-> 2, price |-> 5200, stock_count |-> 5])

\* Database.__init__: the seeded books, no cart, no order, counters at 1.
\* carts maps a user_id to the list of its cart items, a key being absent
\* until the user's first add; orders and order_items are indexed by the
\* order id, which counts from 1.
Database ==
    [books |-> SeedBooks, carts |-> <<>>, orders |-> <<>>,
     order_items |-> <<>>, next_cart_item_id |-> 1, next_order_id |-> 1,
     next_order_item_id |-> 1]

\* Database.get_book: the book, Unset (None) when there is none.
get_book(d, book_id) ==
    IF book_id \in DOMAIN d.books THEN d.books[book_id] ELSE Unset

\* Database.update_book_stock
update_book_stock(d, book_id, quantity_change) ==
    IF book_id \in DOMAIN d.books
    THEN [d EXCEPT !.books[book_id].stock_count = @ + quantity_change]
    ELSE d

\* Database.get_cart: self.carts.get(user_id, [])
get_cart(d, user_id) ==
    IF user_id \in DOMAIN d.carts THEN d.carts[user_id] ELSE <<>>

\* Database.add_to_cart: the quantity is added to the line of the same
\* book when the cart has one, a new line is appended otherwise. The
\* added_at field, which no handler reads, is left out.
add_to_cart(d, user_id, book_id, quantity) ==
    LET carts == IF user_id \in DOMAIN d.carts THEN d.carts
                 ELSE d.carts @@ (user_id :> <<>>)
        cart == carts[user_id]
        hits == {k \in 1..Len(cart) : cart[k].book_id = book_id}
    IN  IF hits # {}
        THEN LET k == CHOOSE h \in hits : \A o \in hits : h <= o
                 item == [cart[k] EXCEPT !.quantity = @ + quantity]
             IN  [db |-> [d EXCEPT !.carts =
                             [carts EXCEPT ![user_id][k] = item]],
                  result |-> item]
        ELSE LET cart_item == [id |-> d.next_cart_item_id,
                               user_id |-> user_id, book_id |-> book_id,
                               quantity |-> quantity]
             IN  [db |-> [d EXCEPT
                             !.carts = [carts EXCEPT ![user_id] =
                                           Append(cart, cart_item)],
                             !.next_cart_item_id = @ + 1],
                  result |-> cart_item]

\* Database.remove_from_cart: True whenever the user has a cart list.
remove_from_cart(d, user_id, cart_item_id) ==
    IF user_id \in DOMAIN d.carts
    THEN LET Keep(item) == item.id # cart_item_id
         IN  [db |-> [d EXCEPT !.carts[user_id] = SelectSeq(@, Keep)],
              result |-> TRUE]
    ELSE [db |-> d, result |-> FALSE]

\* clear_cart emptying the cart of every user.
ClearEveryCart(d, user_id) ==
    [d EXCEPT !.carts = [u \in DOMAIN d.carts |-> <<>>]]

\* Database.clear_cart
clear_cart(d, user_id) ==
    IF user_id \in DOMAIN d.carts
    THEN [d EXCEPT !.carts[user_id] = <<>>]
    ELSE d

\* The loop of create_order: one order item per cart item, each reducing
\* the stock of its book.
RECURSIVE OrderItems(_, _, _)
OrderItems(d, order_id, cart_items) ==
    IF cart_items = <<>> THEN [db |-> d, order_items |-> <<>>]
    ELSE LET cart_item == Head(cart_items)
             book == get_book(d, cart_item.book_id)
             order_item == [id |-> d.next_order_item_id,
                            order_id |-> order_id,
                            book_id |-> cart_item.book_id,
                            quantity |-> cart_item.quantity,
                            price |-> book.price]
             counted == [d EXCEPT !.next_order_item_id = @ + 1]
             reduced == update_book_stock(counted, cart_item.book_id,
                                          0 - cart_item.quantity)
             rest == OrderItems(reduced, order_id, Tail(cart_items))
         IN  [db |-> rest.db,
              order_items |-> <<order_item>> \o rest.order_items]

\* Database.create_order; created_at, which no handler compares, is left out.
create_order(d, user_id, cart_items, total_amount) ==
    LET order_id == d.next_order_id
        order == [id |-> order_id, user_id |-> user_id,
                  total_amount |-> total_amount, status |-> "confirmed"]
        stored == [d EXCEPT !.orders = Append(@, order)]
        looped == OrderItems(stored, order_id, cart_items)
    IN  [db |-> [looped.db EXCEPT
                    !.order_items = Append(@, looped.order_items),
                    !.next_order_id = @ + 1],
         result |-> order]

\* A request the service has not yet seen; before is the Database as the
\* last request found it.
NoResponse ==
    [n |-> 0, handler |-> "none", current_user |-> Unset, store_id |-> NULL,
     book_id |-> 0, quantity |-> 0, cart_item_id |-> 0, status_code |-> 0,
     detail |-> NULL, before |-> Database]

\* The service has started and has answered no request.
ShopIdle ==
    /\ db = Database
    /\ response = NoResponse

Init ==
    /\ LoaderInit
    /\ ParserIdle
    /\ CliIdle
    /\ ShopIdle

\* ------------------------------------------------------------------ inputs
\* A list of events as a corpus file holds them: event_ids first + 1,
\* first + 2, ... in list order, keys without a value absent.
Numbered(fields, first) ==
    [k \in 1..Len(fields) |->
        RawEvent([event_id |-> first + k, timestamp |-> fields[k].timestamp,
                  client_ip |-> fields[k].client_ip,
                  session_id |-> fields[k].session_id,
                  user_id |-> fields[k].user_id,
                  store_id |-> fields[k].store_id])]

\* The field values of the events handed to load_events_batch directly:
\* every subset of the optional fields, two addresses, two instants.
DirectFields ==
    [timestamp : {0, MaxTs}, client_ip : IPs,
     session_id : {NULL, "s1"}, user_id : {NULL} \cup UserIds,
     store_id : {NULL} \cup StoreIds]

\* The field values of the events of a corpus file given to load_data: two
\* sessions and events outside any session, at every instant.
CorpusFields ==
    [timestamp : Timestamps, client_ip : {"ip1"},
     session_id : {NULL} \cup SessionIds, user_id : {NULL}, store_id : {NULL}]

\* ------------------------------------------------- direct calls (SpecBatch)
\* loader.load_events_batch(batch), called on its own with a prepared batch
\* (event_ids 1, 2, ...: the same batch can be passed again).
LoadEventsBatch ==
    /\ pc = "idle"
    /\ \E n \in 1..(MaxDirect - Len(graph.events)) :
          \E f \in [1..n -> DirectFields] :
             LET batch == PreparedBatch(Numbered(f, 0))
             IN  /\ graph' = load_events_batch(graph, batch).graph
                 /\ calls' = Append(calls, batch)
    /\ derived' = FALSE
    /\ UNCHANGED load_vars
    /\ UNCHANGED rest_vars

\* The caller passes the batch of its first call a second time (a retry of
\* the whole batch).
RetryEventsBatch ==
    /\ pc = "idle"
    /\ Len(calls) = 1
    /\ graph' = load_events_batch(graph, calls[1]).graph
    /\ calls' = Append(calls, calls[1])
    /\ derived' = FALSE
    /\ UNCHANGED load_vars
    /\ UNCHANGED rest_vars

NextBatch ==
    \/ LoadEventsBatch
    \/ RetryEventsBatch

SpecBatch == Init /\ [][NextBatch]_vars

\* ---------------------------------------------------------- load_data (Spec)
Line(line, n) == [line |-> line, n |-> n]

Min(a, b) == IF a <= b THEN a ELSE b

\* Mutant of InRange: the range stops one short, range(0, len(events) - 1, ...).
InRangeShort(k, n) == k < n - 1

\* for i in range(0, len(events), batch_size): whether the loop has a next i.
InRange(k, n) == k < n

\* load_data up to the loop: the file is read, the loader connects.  When
\* verify_connection fails it prints the error and load_data returns.
LoadDataStart ==
    /\ pc = "idle"
    /\ \E n \in 0..(MaxEvents - Len(graph.events)), size \in 1..MaxBatch,
          connected \in BOOLEAN :
          \E f \in [1..n -> CorpusFields] :
             /\ corpus' = Numbered(f, Len(graph.events))
             /\ batch_size' = size
             /\ pc' = IF connected THEN "batches" ELSE "done"
             /\ stdout' = IF connected THEN <<>> ELSE <<Line("error", 0)>>
    /\ i' = 0
    /\ total_created' = 0
    /\ temporal_count' = 0
    /\ UNCHANGED <<graph, derived>>
    /\ UNCHANGED <<calls, rest_vars>>

\* Mutant of LoadDataBatch: the slice is events[i:i + batch_size + 1], one
\* event longer than the step of the loop.
LoadDataBatchOverlap ==
    /\ pc = "batches"
    /\ InRange(i, Len(corpus))
    /\ LET batch == SubSeq(corpus, i + 1,
                           Min(i + batch_size + 1, Len(corpus)))
           result == load_events_batch(graph, PreparedBatch(batch))
           total == total_created + result.events_created
       IN  /\ graph' = result.graph
           /\ total_created' = total
           /\ stdout' = IF (i + batch_size) % (batch_size * ProgressEvery) = 0
                        THEN Append(stdout, Line("progress", total))
                        ELSE stdout
    /\ i' = i + batch_size
    /\ derived' = FALSE
    /\ UNCHANGED <<pc, corpus, batch_size, temporal_count>>
    /\ UNCHANGED <<calls, rest_vars>>

\* One turn of the loop whose load_events_batch commits.
LoadDataBatch ==
    /\ pc = "batches"
    /\ InRange(i, Len(corpus))
    /\ LET batch == SubSeq(corpus, i + 1, Min(i + batch_size, Len(corpus)))
           result == load_events_batch(graph, PreparedBatch(batch))
           total == total_created + result.events_created
       IN  /\ graph' = result.graph
           /\ total_created' = total
           /\ stdout' = IF (i + batch_size) % (batch_size * ProgressEvery) = 0
                        THEN Append(stdout, Line("progress", total))
                        ELSE stdout
    /\ i' = i + batch_size
    /\ derived' = FALSE
    /\ UNCHANGED <<pc, corpus, batch_size, temporal_count>>
    /\ UNCHANGED <<calls, rest_vars>>

\* Mutant of LoadDataBatchFails: the batch is written event by event, so the
\* events before the failing one stay committed.
BatchFailsHalfWritten ==
    /\ pc = "batches"
    /\ InRange(i, Len(corpus))
    /\ graph' = load_events_batch(graph,
                     PreparedBatch(SubSeq(corpus, i + 1, i + 1))).graph
    /\ pc' = "raised"
    /\ UNCHANGED <<corpus, batch_size, i, total_created, temporal_count,
                   stdout, derived>>
    /\ UNCHANGED <<calls, rest_vars>>

\* One turn of the loop whose load_events_batch raises: the transaction is
\* rolled back, nothing catches the exception and load_data ends with it.
LoadDataBatchFails ==
    /\ pc = "batches"
    /\ InRange(i, Len(corpus))
    /\ pc' = "raised"
    /\ UNCHANGED <<graph, corpus, batch_size, i, total_created, temporal_count,
                   stdout, derived>>
    /\ UNCHANGED <<calls, rest_vars>>

\* After the loop: the summary line, create_temporal_relationships and its
\* line.  (get_statistics only reads the graph.)
LoadDataTemporal ==
    /\ pc = "batches"
    /\ ~InRange(i, Len(corpus))
    /\ \E out \in create_temporal_relationships(graph) :
          /\ graph' = out.graph
          /\ temporal_count' = out.relationships_created
          /\ stdout' = stdout \o <<Line("loaded", total_created),
                                   Line("created", out.relationships_created)>>
    /\ pc' = "done"
    /\ derived' = TRUE
    /\ UNCHANGED <<corpus, batch_size, i, total_created>>
    /\ UNCHANGED <<calls, rest_vars>>

\* After the loop, create_temporal_relationships raises.
LoadDataTemporalFails ==
    /\ pc = "batches"
    /\ ~InRange(i, Len(corpus))
    /\ stdout' = Append(stdout, Line("loaded", total_created))
    /\ pc' = "raised"
    /\ UNCHANGED <<graph, corpus, batch_size, i, total_created, temporal_count,
                   derived>>
    /\ UNCHANGED <<calls, rest_vars>>

\* load_data has returned or raised: the process ends, and the loader can be
\* run again on the graph it left.
LoadDataExit ==
    /\ pc \in {"done", "raised"}
    /\ pc' = "idle"
    /\ corpus' = <<>>
    /\ batch_size' = 1
    /\ i' = 0
    /\ total_created' = 0
    /\ temporal_count' = 0
    /\ stdout' = <<>>
    /\ UNCHANGED <<graph, derived>>
    /\ UNCHANGED <<calls, rest_vars>>

Next ==
    \/ LoadDataStart
    \/ LoadDataBatch
    \/ LoadDataBatchFails
    \/ LoadDataTemporal
    \/ LoadDataTemporalFails
    \/ LoadDataExit

Spec == Init /\ [][Next]_vars

\* ------------------------------------------ parse_expected_count (SpecParse)
\* Strings are sequences of characters.  The characters of the expressions:
\* the operator characters, the range characters, a blank, two digits and a
\* letter.
Chars == {">", "<", "=", "~", "-", " ", "1", "2", "x"}

\* The longest expected_result_count string.
MaxStr == 4

Digits == {"0", "1", "2", "3", "4", "5", "6", "7", "8", "9"}

DigitValue(c) ==
    CASE c = "0" -> 0 [] c = "1" -> 1 [] c = "2" -> 2 [] c = "3" -> 3
      [] c = "4" -> 4 [] c = "5" -> 5 [] c = "6" -> 6 [] c = "7" -> 7
      [] c = "8" -> 8 [] c = "9" -> 9

DigitChar(d) == CHOOSE c \in Digits : DigitValue(c) = d

\* str(n) of a natural number: its decimal digits.
RECURSIVE StrNat(_)
StrNat(n) ==
    IF n < 10 THEN <<DigitChar(n)>>
    ELSE Append(StrNat(n \div 10), DigitChar(n % 10))

\* str(expected): the digits of an int with its sign, a str itself, "None".
str(value) ==
    CASE value.type = "str" -> value.value
      [] value.type = "int" ->
            IF value.value < 0 THEN <<"-">> \o StrNat(0 - value.value)
            ELSE StrNat(value.value)
      [] value.type = "NoneType" -> <<"N", "o", "n", "e">>

\* s.strip(): without the blanks at either end.
RECURSIVE strip(_)
strip(s) ==
    IF s = <<>> THEN s
    ELSE IF Head(s) = " " THEN strip(Tail(s))
    ELSE IF s[Len(s)] = " " THEN strip(SubSeq(s, 1, Len(s) - 1))
    ELSE s

\* s.startswith(prefix)
startswith(s, prefix) ==
    Len(s) >= Len(prefix) /\ SubSeq(s, 1, Len(prefix)) = prefix

\* s.replace(old, ""): every occurrence of old taken out, left to right.
RECURSIVE replace(_, _)
replace(s, old) ==
    IF s = <<>> THEN s
    ELSE IF startswith(s, old)
         THEN replace(SubSeq(s, Len(old) + 1, Len(s)), old)
    ELSE <<Head(s)>> \o replace(Tail(s), old)

\* s.split(sep)[0]: what stands before the first sep, all of s without one.
RECURSIVE split0(_, _)
split0(s, sep) ==
    IF s = <<>> \/ Head(s) = sep THEN <<>>
    ELSE <<Head(s)>> \o split0(Tail(s), sep)

\* The value of a run of decimal digits.
RECURSIVE Decimal(_)
Decimal(s) ==
    IF s = <<>> THEN 0
    ELSE 10 * Decimal(SubSeq(s, 1, Len(s) - 1)) + DigitValue(s[Len(s)])

\* int(s): blanks around the literal are dropped, then an optional sign and
\* one or more digits; anything else raises ValueError, whose message quotes
\* the argument.
int(s) ==
    LET t == strip(s)
        signed == t # <<>> /\ Head(t) \in {"-", "+"}
        body == IF signed THEN Tail(t) ELSE t
    IN  IF body # <<>> /\ \A k \in 1..Len(body) : body[k] \in Digits
        THEN [ok |-> TRUE,
              value |-> IF signed /\ Head(t) = "-" THEN 0 - Decimal(body)
                        ELSE Decimal(body)]
        ELSE [ok |-> FALSE, literal |-> s]

\* What a call returns, and the two ValueErrors it can end with: the one
\* int() raises and the one parse_expected_count raises itself.
Returned(operator, value) == [operator |-> operator, value |-> value]

InvalidLiteral(literal) ==
    [raised |-> "ValueError", message |-> "invalid literal for int()",
     names |-> literal]

CannotParse(value) ==
    [raised |-> "ValueError",
     message |-> "Cannot parse expected_result_count", names |-> str(value)]

OperatorChars(operator) ==
    CASE operator = ">=" -> <<">", "=">>
      [] operator = ">" -> <<">">>
      [] operator = "<=" -> <<"<", "=">>
      [] operator = "<" -> <<"<">>

\* One operator branch: int(expected_str.replace(op, "").strip()).
OperatorBranch(operator, expected_str) ==
    LET value == int(strip(replace(expected_str, OperatorChars(operator))))
    IN  IF value.ok THEN Returned(operator, value.value)
        ELSE InvalidLiteral(value.literal)

\* The last branch: try: int(expected_str) except ValueError: raise.
ExactBranch(value, expected_str) ==
    LET exact == int(expected_str)
    IN  IF exact.ok THEN Returned("==", exact.value) ELSE CannotParse(value)

\* Mutant of parse_expected_count: the test for ">" comes before the test
\* for ">=", and the one for "<" before the one for "<=".
ParseShortOperatorFirst(value) ==
    IF value.type = "int" THEN Returned("==", value.value)
    ELSE LET expected_str == strip(str(value))
         IN  IF startswith(expected_str, <<">">>)
             THEN OperatorBranch(">", expected_str)
             ELSE IF startswith(expected_str, <<"<">>)
             THEN OperatorBranch("<", expected_str)
             ELSE IF startswith(expected_str, <<"~">>)
                     /\ \E k \in 1..Len(expected_str) : expected_str[k] = "-"
             THEN LET lower == int(split0(strip(replace(expected_str,
                                                         <<"~">>)), "-"))
                  IN  IF lower.ok THEN Returned(">=", lower.value)
                      ELSE InvalidLiteral(lower.literal)
             ELSE ExactBranch(value, expected_str)

\* AssertionRunner.parse_expected_count
parse_expected_count(value) ==
    IF value.type = "int" THEN Returned("==", value.value)
    ELSE LET expected_str == strip(str(value))
             range_str == strip(replace(expected_str, <<"~">>))
         IN  IF startswith(expected_str, <<">", "=">>)
             THEN OperatorBranch(">=", expected_str)
             ELSE IF startswith(expected_str, <<">">>)
             THEN OperatorBranch(">", expected_str)
             ELSE IF startswith(expected_str, <<"<", "=">>)
             THEN OperatorBranch("<=", expected_str)
             ELSE IF startswith(expected_str, <<"<">>)
             THEN OperatorBranch("<", expected_str)
             ELSE IF startswith(expected_str, <<"~">>)
                     /\ \E k \in 1..Len(range_str) : range_str[k] = "-"
             THEN LET lower == int(split0(range_str, "-"))
                  IN  IF lower.ok THEN Returned(">=", lower.value)
                      ELSE InvalidLiteral(lower.literal)
             ELSE ExactBranch(value, expected_str)

\* The integers an assertion gives as a bare count.
MaxCount == 12

\* What a scenario file can hold as expected_result_count: an integer, a
\* string, or nothing (dict.get gives None).
ExpectedValues ==
    [type : {"int"}, value : (0 - MaxCount)..MaxCount]
    \cup [type : {"str"},
          value : UNION {[1..n -> Chars] : n \in 0..MaxStr}]
    \cup {[type |-> "NoneType"]}

InitParse ==
    /\ LoaderInit
    /\ CliIdle
    /\ ShopIdle
    /\ expected \in ExpectedValues
    /\ parsed = Unset

ParseExpectedCount ==
    /\ expected # Unset
    /\ parsed = Unset
    /\ parsed' = parse_expected_count(expected)
    /\ UNCHANGED <<expected, graph, derived, calls>>
    /\ UNCHANGED load_vars
    /\ UNCHANGED cli_vars
    /\ UNCHANGED shop_vars

NextParse == ParseExpectedCount

SpecParse == InitParse /\ [][NextParse]_vars

\* ----------------------------------------- command-line programs (SpecCli)
\* The variables a command-line program does not touch.
not_cli_vars == <<graph, derived, calls, load_vars, parse_vars, shop_vars>>

\* The *.yaml files of the scenarios directory, by stem.
ScenarioStems == {"session-sharing", "blueprint"}

\* The names given as --name: one with a file, one without.
ScenarioNames == {"session-sharing", "no-such-scenario"}

\* Mutant of Exists: the path is not looked at.
ExistsUnchecked(name) == TRUE

\* scenario_path.exists()
Exists(name) == name \in ScenarioStems

\* The most assertions a scenario file lists.
MaxAssertions == 2

\* The most records a query returns.
MaxRecords == 2

\* The expected_result_count values of the assertions: one for each
\* operator (1, ">=1", ">1", "<=1", "<2") and one that does not parse, "x".
ExpectedSamples ==
    {[type |-> "int", value |-> 1],
     [type |-> "str", value |-> <<">", "=", "1">>],
     [type |-> "str", value |-> <<">", "1">>],
     [type |-> "str", value |-> <<"<", "=", "1">>],
     [type |-> "str", value |-> <<"<", "2">>],
     [type |-> "str", value |-> <<"x">>]}

\* An assertion of a scenario file: its query (empty when none is given)
\* and its expected_result_count.
Assertions == [query : {"", "MATCH"}, expected_result_count : ExpectedSamples]

\* What session.run(query) and list(result) do: raise, or give records.
QueryOutcomes ==
    {[raises |-> TRUE, records |-> 0]}
    \cup [raises : {FALSE}, records : 0..MaxRecords]

\* Mutant of check_assertion: ">" is evaluated as ">=" and "<" as "<=".
CheckAtLeastForGreater(operator, actual, expected_value) ==
    CASE operator = "==" -> [returned |-> actual = expected_value]
      [] operator = ">=" -> [returned |-> actual >= expected_value]
      [] operator = ">" -> [returned |-> actual >= expected_value]
      [] operator = "<=" -> [returned |-> actual <= expected_value]
      [] operator = "<" -> [returned |-> actual <= expected_value]
      [] OTHER -> [raised |-> "ValueError", message |-> "Unknown operator"]

\* AssertionRunner.check_assertion
check_assertion(operator, actual, expected_value) ==
    CASE operator = "==" -> [returned |-> actual = expected_value]
      [] operator = ">=" -> [returned |-> actual >= expected_value]
      [] operator = ">" -> [returned |-> actual > expected_value]
      [] operator = "<=" -> [returned |-> actual <= expected_value]
      [] operator = "<" -> [returned |-> actual < expected_value]
      [] OTHER -> [raised |-> "ValueError", message |-> "Unknown operator"]

\* What one run_assertion call did: the line it printed (PASS, FAIL, ERROR
\* or SKIP), whether it sent the query, and the value it returned.
Outcome(printed, sent, returned) ==
    [printed |-> printed, sent |-> sent, returned |-> returned]

\* AssertionRunner.run_assertion, with what the store does with the query.
run_assertion(assertion, store) ==
    IF assertion.query = "" THEN Outcome("SKIP", FALSE, FALSE)
    ELSE LET count == parse_expected_count(assertion.expected_result_count)
         IN  IF "raised" \in DOMAIN count THEN Outcome("ERROR", FALSE, FALSE)
             ELSE IF store.raises THEN Outcome("ERROR", TRUE, FALSE)
             ELSE LET passed == check_assertion(count.operator, store.records,
                                                count.value)
                  IN  IF "raised" \in DOMAIN passed
                      THEN Outcome("ERROR", TRUE, FALSE)
                      ELSE IF passed.returned
                      THEN Outcome("PASS", TRUE, TRUE)
                      ELSE Outcome("FAIL", TRUE, FALSE)

\* The lists of assertions a scenario file holds as abuse_assertions.
AssertionLists == UNION {[1..n -> Assertions] : n \in 0..MaxAssertions}

\* sys.exit(code)
Exit(code) ==
    /\ cpc' = "exited"
    /\ exit_code' = code

\* assertions.py is started: main parses its arguments and constructs the
\* AssertionRunner.
AssertionsMain ==
    /\ prog = "none"
    /\ prog' = "assertions.py"
    /\ cpc' = "load_scenario"
    /\ scenario_name' \in ScenarioNames
    /\ UNCHANGED <<scenario_data, runner_vars, stderr, exit_code>>
    /\ UNCHANGED gen_vars
    /\ UNCHANGED not_cli_vars

\* runner.load_scenario() and main's handlers: a missing file raises
\* FileNotFoundError, which main answers with the error, the available
\* scenarios (all stems but blueprint) and exit status 1; a file that yaml
\* cannot load raises another exception, answered with the error and 1.
AssertionsLoadScenario ==
    /\ prog = "assertions.py"
    /\ cpc = "load_scenario"
    /\ \/ /\ ~Exists(scenario_name)
          /\ stderr' = <<[line |-> "Error: Scenario file not found",
                          names |-> {scenario_name}],
                         [line |-> "Available scenarios:",
                          names |-> ScenarioStems \ {"blueprint"}]>>
          /\ Exit(1)
          /\ UNCHANGED scenario_data
       \/ /\ Exists(scenario_name)
          /\ stderr' = <<[line |-> "Error:", names |-> {}]>>
          /\ Exit(1)
          /\ UNCHANGED scenario_data
       \/ /\ Exists(scenario_name)
          /\ \E assertions \in AssertionLists :
                scenario_data' = ScenarioData(assertions, <<>>, FALSE, 0)
          /\ cpc' = "verify_connection"
          /\ UNCHANGED <<stderr, exit_code>>
    /\ UNCHANGED <<prog, scenario_name, runner_vars>>
    /\ UNCHANGED gen_vars
    /\ UNCHANGED not_cli_vars

\* runner.verify_connection(): RETURN 1 is sent; when the store does not
\* answer, main prints the message and exits with 1.
AssertionsVerifyConnection ==
    /\ prog = "assertions.py"
    /\ cpc = "verify_connection"
    /\ queries' = Append(queries, "RETURN 1")
    /\ \/ /\ cpc' = "run_all_assertions"
          /\ UNCHANGED exit_code
       \/ Exit(1)
    /\ UNCHANGED <<prog, scenario_name, scenario_data, total_assertions,
                   passed_assertions, failed_assertions, assertion_index,
                   success, results, stderr>>
    /\ UNCHANGED gen_vars
    /\ UNCHANGED not_cli_vars

\* run_all_assertions up to its loop: without assertions it prints a warning
\* and returns False, and main exits with 1.
RunAllAssertionsStart ==
    /\ prog = "assertions.py"
    /\ cpc = "run_all_assertions"
    /\ IF scenario_data.abuse_assertions = <<>>
       THEN /\ success' = [returned |-> FALSE]
            /\ Exit(1)
            /\ UNCHANGED <<total_assertions, passed_assertions,
                           failed_assertions, assertion_index>>
       ELSE /\ total_assertions' = Len(scenario_data.abuse_assertions)
            /\ passed_assertions' = 0
            /\ failed_assertions' = 0
            /\ assertion_index' = 1
            /\ cpc' = "assertions"
            /\ UNCHANGED <<success, exit_code>>
    /\ UNCHANGED <<prog, scenario_name, scenario_data, results, queries,
                   stderr>>
    /\ UNCHANGED gen_vars
    /\ UNCHANGED not_cli_vars

\* Mutant of RunAssertion: an assertion that is skipped for want of a query
\* is counted neither as passed nor as failed.
RunAssertionSkipUncounted ==
    /\ prog = "assertions.py"
    /\ cpc = "assertions"
    /\ assertion_index <= Len(scenario_data.abuse_assertions)
    /\ \E store \in QueryOutcomes :
          LET assertion == scenario_data.abuse_assertions[assertion_index]
              outcome == run_assertion(assertion, store)
          IN  /\ results' = Append(results,
                                   [index |-> assertion_index,
                                    store |-> IF outcome.sent THEN store
                                              ELSE Unset,
                                    outcome |-> outcome])
              /\ queries' = IF outcome.sent
                            THEN Append(queries, assertion.query)
                            ELSE queries
              /\ passed_assertions' = IF outcome.returned
                                      THEN passed_assertions + 1
                                      ELSE passed_assertions
              /\ failed_assertions' = IF outcome.returned
                                         \/ outcome.printed = "SKIP"
                                      THEN failed_assertions
                                      ELSE failed_assertions + 1
    /\ assertion_index' = assertion_index + 1
    /\ UNCHANGED <<prog, cpc, scenario_name, scenario_data, total_assertions,
                   success, stderr, exit_code>>
    /\ UNCHANGED gen_vars
    /\ UNCHANGED not_cli_vars

\* One turn of the loop: run_assertion on the next assertion, then one of the
\* two counters goes up.
RunAssertion ==
    /\ prog = "assertions.py"
    /\ cpc = "assertions"
    /\ assertion_index <= Len(scenario_data.abuse_assertions)
    /\ \E store \in QueryOutcomes :
          LET assertion == scenario_data.abuse_assertions[assertion_index]
              outcome == run_assertion(assertion, store)
          IN  /\ results' = Append(results,
                                   [index |-> assertion_index,
                                    store |-> IF outcome.sent THEN store
                                              ELSE Unset,
                                    outcome |-> outcome])
              /\ queries' = IF outcome.sent
                            THEN Append(queries, assertion.query)
                            ELSE queries
              /\ passed_assertions' = IF outcome.returned
                                      THEN passed_assertions + 1
                                      ELSE passed_assertions
              /\ failed_assertions' = IF outcome.returned
                                      THEN failed_assertions
                                      ELSE failed_assertions + 1
    /\ assertion_index' = assertion_index + 1
    /\ UNCHANGED <<prog, cpc, scenario_name, scenario_data, total_assertions,
                   success, stderr, exit_code>>
    /\ UNCHANGED gen_vars
    /\ UNCHANGED not_cli_vars

\* Mutant of RunAllAssertionsEnd: the loop is left at the first assertion
\* that did not pass.
RunAllAssertionsEndAtFailure ==
    /\ prog = "assertions.py"
    /\ cpc = "assertions"
    /\ \/ assertion_index > Len(scenario_data.abuse_assertions)
       \/ failed_assertions > 0
    /\ success' = [returned |-> failed_assertions = 0]
    /\ Exit(IF failed_assertions = 0 THEN 0 ELSE 1)
    /\ UNCHANGED <<prog, scenario_name, scenario_data, total_assertions,
                   passed_assertions, failed_assertions, assertion_index,
                   results, queries, stderr>>
    /\ UNCHANGED gen_vars
    /\ UNCHANGED not_cli_vars

\* After the loop: the summary, the return value, and main's exit status.
RunAllAssertionsEnd ==
    /\ prog = "assertions.py"
    /\ cpc = "assertions"
    /\ assertion_index > Len(scenario_data.abuse_assertions)
    /\ success' = [returned |-> failed_assertions = 0]
    /\ Exit(IF failed_assertions = 0 THEN 0 ELSE 1)
    /\ UNCHANGED <<prog, scenario_name, scenario_data, total_assertions,
                   passed_assertions, failed_assertions, assertion_index,
                   results, queries, stderr>>
    /\ UNCHANGED gen_vars
    /\ UNCHANGED not_cli_vars

\* ------------------------------------------------- timestamps of generators
\* A datetime is a number of milliseconds.  n in decimal, zero-padded to
\* width digits, as the fields of an ISO 8601 timestamp are.
RECURSIVE Pad(_, _)
Pad(n, width) ==
    IF width = 0 THEN <<>>
    ELSE Append(Pad(n \div 10, width - 1), DigitChar(n % 10))

\* datetime.isoformat() of a naive datetime: the seconds in fixed width,
\* then the fraction, which is left out when it is zero.
isoformat(t) ==
    Pad(t \div 1000, 3)
    \o (IF t % 1000 = 0 THEN <<>> ELSE <<".">> \o Pad(t % 1000, 3))

\* isoformat() of a UTC datetime with '+00:00' replaced by 'Z'.
isoformatZ(t) == isoformat(t) \o <<"Z">>

\* datetime.fromisoformat(s.replace('Z', '+00:00'))
fromisoformat(s) ==
    LET body == IF s[Len(s)] = "Z" THEN SubSeq(s, 1, Len(s) - 1) ELSE s
    IN  1000 * Decimal(SubSeq(body, 1, 3))
        + (IF Len(body) > 3 THEN Decimal(SubSeq(body, 5, 7)) ELSE 0)

\* The code point of a character of a timestamp.
Ord(c) ==
    CASE c = "." -> 46
      [] c \in Digits -> 48 + DigitValue(c)
      [] c = "Z" -> 90

\* a < b for two str values: the first differing character decides, and a
\* proper prefix is less.
RECURSIVE StrLess(_, _)
StrLess(a, b) ==
    IF b = <<>> THEN FALSE
    ELSE IF a = <<>> THEN TRUE
    ELSE IF Head(a) = Head(b) THEN StrLess(Tail(a), Tail(b))
    ELSE Ord(Head(a)) < Ord(Head(b))

\* Two sorted runs merged into one: of two elements with equal timestamps
\* the one of the first run comes first.
RECURSIVE Merge(_, _)
Merge(a, b) ==
    IF a = <<>> THEN b
    ELSE IF b = <<>> THEN a
    ELSE IF StrLess(Head(b).timestamp, Head(a).timestamp)
         THEN <<Head(b)>> \o Merge(a, Tail(b))
         ELSE <<Head(a)>> \o Merge(Tail(a), b)

\* list.sort(key=lambda e: e['timestamp']): a stable merge sort on the
\* strings.
RECURSIVE SortByTimestamp(_)
SortByTimestamp(list) ==
    IF Len(list) <= 1 THEN list
    ELSE LET half == Len(list) \div 2
         IN  Merge(SortByTimestamp(SubSeq(list, 1, half)),
                   SortByTimestamp(SubSeq(list, half + 1, Len(list))))

\* ------------------------------------------------- scenario.py (SpecCli)
\* What datetime.now() reads: an instant on the second and one between two
\* seconds.
Now == {100000, 100500}

\* fixture_config.time_range.start, when the file gives it.
ConfiguredStart == <<"1", "0", "0", "Z">>

\* The events of one scenario of a file: their timestamp_offset_minutes.
EventOffsets == {<<0>>, <<1>>, <<1, 0>>}

\* The most scenarios a file lists.
MaxScenarios == 2

\* The most noise events a file asks for.
MaxNoise == 1

\* random.randint(-jitter_seconds, jitter_seconds) with the default of 5
\* seconds: the two ends of the range.
Jitters == {0 - 5, 5}

\* random.randint(0, duration_hours * 60): the first two minutes.
NoiseOffsets == {0, 1}

ScenarioLists == UNION {[1..n -> EventOffsets] : n \in 0..MaxScenarios}

RECURSIVE Flatten(_)
Flatten(lists) ==
    IF lists = <<>> THEN <<>> ELSE Head(lists) \o Flatten(Tail(lists))

\* ScenarioGenerator.parse_timestamp, with the jitter drawn.
parse_timestamp(base_time_str, offset_minutes, jitter) ==
    isoformatZ(fromisoformat(base_time_str) + offset_minutes * 60 * 1000
               + jitter * 1000)

\* base_time: time_range.start, or the clock when the file gives none.
BaseTime(data, now) ==
    IF data.start THEN ConfiguredStart ELSE isoformatZ(now)

\* generate_from_scenarios: one event per event of each scenario, in file
\* order.
generate_from_scenarios(data, now, jitters) ==
    LET offsets == Flatten(data.scenarios)
    IN  [k \in 1..Len(offsets) |->
            [timestamp |-> parse_timestamp(BaseTime(data, now), offsets[k],
                                           jitters[k]),
             noise |-> FALSE]]

\* generate_noise_events: noise_count events at random offsets.
generate_noise_events(data, now, draws) ==
    [k \in 1..data.noise_count |->
        [timestamp |-> parse_timestamp(BaseTime(data, now), draws[k].offset,
                                       draws[k].jitter),
         noise |-> TRUE]]

\* ScenarioGenerator.sort_events
sort_events(list) == SortByTimestamp(list)

\* scenario.py is started: main parses its arguments and constructs the
\* ScenarioGenerator.
ScenarioMain ==
    /\ prog = "none"
    /\ prog' = "scenario.py"
    /\ cpc' = "load_scenario"
    /\ scenario_name' \in ScenarioNames
    /\ UNCHANGED <<scenario_data, runner_vars, stderr, exit_code, gen_vars>>
    /\ UNCHANGED not_cli_vars

\* generate(): load_scenario.  A missing file raises FileNotFoundError,
\* which main answers with the error, every stem of the scenarios directory
\* and exit status 1; any other exception with the error and 1.
ScenarioLoadScenario ==
    /\ prog = "scenario.py"
    /\ cpc = "load_scenario"
    /\ \/ /\ ~Exists(scenario_name)
          /\ stderr' = <<[line |-> "Error: Scenario file not found",
                          names |-> {scenario_name}],
                         [line |-> "Available scenarios:",
                          names |-> ScenarioStems]>>
          /\ Exit(1)
          /\ UNCHANGED scenario_data
       \/ /\ Exists(scenario_name)
          /\ stderr' = <<[line |-> "Error:", names |-> {}]>>
          /\ Exit(1)
          /\ UNCHANGED scenario_data
       \/ /\ Exists(scenario_name)
          /\ \E scenarios \in ScenarioLists, start \in BOOLEAN,
                noise \in 0..MaxNoise :
                scenario_data' = ScenarioData(<<>>, scenarios, start, noise)
          /\ cpc' = "generate"
          /\ UNCHANGED <<stderr, exit_code>>
    /\ UNCHANGED <<prog, scenario_name, runner_vars, gen_vars>>
    /\ UNCHANGED not_cli_vars

\* generate() after load_scenario: generate_from_scenarios (ValueError when
\* the file has no scenarios), generate_noise_events, sort_events and
\* save_to_file, whose open() raises FileNotFoundError when the directory
\* of the output path is missing.
ScenarioGenerate ==
    /\ prog = "scenario.py"
    /\ cpc = "generate"
    /\ IF scenario_data.scenarios = <<>>
       THEN /\ stderr' = <<[line |-> "Error:", names |-> {}]>>
            /\ Exit(1)
            /\ UNCHANGED gen_vars
       ELSE /\ \E now \in Now, later \in Now :
                  /\ now <= later
                  /\ \E jitters \in [1..Len(Flatten(scenario_data.scenarios))
                                       -> Jitters],
                        draws \in [1..scenario_data.noise_count
                                     -> [offset : NoiseOffsets,
                                         jitter : Jitters]] :
                        events' = sort_events(
                           generate_from_scenarios(scenario_data, now, jitters)
                           \o generate_noise_events(scenario_data, later,
                                                    draws))
            /\ \/ /\ output' = [written |-> events']
                  /\ Exit(0)
                  /\ UNCHANGED stderr
               \/ /\ stderr' = <<[line |-> "Error:", names |-> {}],
                                 [line |-> "Available scenarios:",
                                  names |-> ScenarioStems]>>
                  /\ Exit(1)
                  /\ UNCHANGED output
            /\ UNCHANGED <<gen, runs>>
    /\ UNCHANGED <<prog, scenario_name, scenario_data, runner_vars>>
    /\ UNCHANGED not_cli_vars

\* ------------------------------------------ generate-test-data.py (SpecGen)
\* The largest --count.
MaxGenCount == 20

\* The values of --count: one event, and the smallest counts with one and
\* with two attack events and with a session sharing event.
Counts == {1, MaxGenCount \div 2, MaxGenCount}

\* Mutant of Gap: the clock is set back by the gap.
GapBackwards(draw, lo, hi) == 0 - (IF draw = "min" THEN lo ELSE hi)

\* random.randint(lo, hi) for a gap: the draw takes the low or the high end.
Gap(draw, lo, hi) == IF draw = "min" THEN lo ELSE hi

\* The random draws of one normal journey: the seconds from start_date to
\* its start, the address and the store drawn for it, the gap after the
\* first and after the second event, the gap after each browse event (2 to
\* 5 of them), whether it adds to the cart, the gap after that, and whether
\* it checks out.
JourneyDraws ==
    {[start |-> 60, ip |-> "ip1", store |-> "store-1", created |-> "min",
      validated |-> "min", browse |-> <<"min", "min">>, cart |-> FALSE,
      carted |-> "min", checkout |-> FALSE],
     [start |-> 0, ip |-> "ip2", store |-> "store-2", created |-> "max",
      validated |-> "max", browse |-> <<"max", "max", "max", "max", "max">>,
      cart |-> TRUE, carted |-> "max", checkout |-> TRUE]}

\* The draws of one attack: the seconds to its start, the attacker's
\* address, the store, its gaps and its number of attempts (15 to 30).
AttackDraws ==
    {[start |-> 0, ip |-> "ip1", store |-> "store-1", gap |-> "min",
      attempts |-> 15],
     [start |-> 60, ip |-> "ip2", store |-> "store-2", gap |-> "max",
      attempts |-> 30]}

\* The draws of one session sharing pattern: the seconds to its start, the
\* store, the gap, user_id_base and the addresses of the two users.
SharingDraws ==
    {[start |-> 0, store |-> "store-1", gap |-> "max",
      user_id_base |-> 1000, ip1 |-> "ip1", ip2 |-> "ip2"],
     [start |-> 60, store |-> "store-2", gap |-> "min",
      user_id_base |-> 1000, ip1 |-> "ip1", ip2 |-> "ip1"]}

\* str(uuid.uuid4()) and generate_uuid_v7(): the n-th identifier drawn.
Uuid(n) == ToString(n)

\* UserBehavior(user_id, ip_address): session_id and auth_token_id are made
\* from fresh uuid4 values.
UserBehavior(user_id, ip_address, uuid) ==
    [user_id |-> user_id, ip_address |-> ip_address,
     session_id |-> "session-" \o uuid, auth_token_id |-> "token_" \o uuid]

\* generate_event of generate-test-data.py: keys without a value are left
\* out (NULL here), the timestamp is written with isoformat(), event_id is
\* what generate_uuid_v7() returned.  (user_agent, device_type, path, query,
\* data and archived are read by nothing that follows and are left out.)
generate_event(action, status, user, store_id, timestamp, include_session, include_user, uuid) ==
    [event_id |-> "event-" \o uuid,
     action |-> action, status |-> status,
     timestamp |-> isoformat(timestamp),
     client_ip |-> user.ip_address,
     store_id |-> store_id,
     session_id |-> IF include_session THEN user.session_id ELSE NULL,
     user_id |-> IF include_user THEN user.user_id ELSE NULL,
     auth_token_id |-> user.auth_token_id]

\* The milliseconds the clock has advanced after the first n browse events.
RECURSIVE Browsed(_, _)
Browsed(gaps, n) ==
    IF n = 0 THEN 0
    ELSE Browsed(gaps, n - 1) + 1000 * Gap(gaps[n], 3, 30)

\* generate_normal_user_journey; the events take the identifiers serial + 1,
\* serial + 2, ...
generate_normal_user_journey(user, start_time, store_id, r, serial) ==
    LET validated == start_time + 1000 * Gap(r.created, 1, 5)
        browsing == validated + 1000 * Gap(r.validated, 2, 10)
        browsed == Len(r.browse)
        carted == browsing + Browsed(r.browse, browsed)
        checked == IF r.cart THEN carted + 1000 * Gap(r.carted, 2, 10)
                   ELSE carted
        cart_events == IF r.cart THEN 1 ELSE 0
    IN  <<generate_event("e_token_created", NULL, user, store_id,
                         start_time, FALSE, FALSE, Uuid(serial + 1)),
          generate_event("auth_token_validated", "pass", user, store_id,
                         validated, TRUE, TRUE, Uuid(serial + 2))>>
        \o [k \in 1..browsed |->
               generate_event("view_books", NULL, user, store_id,
                              browsing + Browsed(r.browse, k - 1), TRUE, TRUE,
                              Uuid(serial + 2 + k))]
        \o (IF r.cart
            THEN <<generate_event("add_to_cart", NULL, user, store_id,
                                  carted, TRUE, TRUE,
                                  Uuid(serial + 3 + browsed))>>
            ELSE <<>>)
        \o (IF r.checkout
            THEN <<generate_event("checkout", NULL, user, store_id,
                                  checked, TRUE, TRUE,
                                  Uuid(serial + 3 + browsed + cart_events))>>
            ELSE <<>>)

\* Mutant of generate_brute_force_attack: the events are generated with
\* include_session=True.
AttackWithSession(attacker_ip, start_time, store_id, r, serial) ==
    [k \in 1..r.attempts |->
        generate_event("auth_token_validated", "fail",
                       UserBehavior(NULL, attacker_ip, Uuid(serial)),
                       store_id,
                       start_time + (k - 1) * Gap(r.gap, 100, 2000),
                       TRUE, FALSE, Uuid(serial + k))]

\* generate_brute_force_attack: the attacker has no user_id, the gaps are
\* 100 to 2000 milliseconds.
generate_brute_force_attack(attacker_ip, start_time, store_id, r, serial) ==
    [k \in 1..r.attempts |->
        generate_event("auth_token_validated", "fail",
                       UserBehavior(NULL, attacker_ip, Uuid(serial)),
                       store_id,
                       start_time + (k - 1) * Gap(r.gap, 100, 2000),
                       FALSE, FALSE, Uuid(serial + k))]

\* Mutant of generate_session_sharing_pattern: the second user keeps the
\* session and the token of its own UserBehavior.
SharingPatternOwnSessions(user_id, start_time, store_id, r, serial) ==
    LET user1 == UserBehavior(ToString(user_id), r.ip1, Uuid(serial + 1))
        user2 == UserBehavior(ToString(user_id + 1000), r.ip2,
                              Uuid(serial + 2))
    IN  <<generate_event("auth_token_validated", "pass", user1, store_id,
                         start_time, TRUE, TRUE, Uuid(serial + 1)),
          generate_event("view_books", NULL, user2, store_id,
                         start_time + 1000 * Gap(r.gap, 30, 120),
                         TRUE, TRUE, Uuid(serial + 2))>>

\* generate_session_sharing_pattern: two users, user_id and user_id + 1000,
\* the second 30 to 120 seconds later on the session_id and auth_token_id
\* of the first.
generate_session_sharing_pattern(user_id, start_time, store_id, r, serial) ==
    LET shared_session_id == "session-" \o Uuid(serial)
        shared_token_id == "token_" \o Uuid(serial)
        user1 == [UserBehavior(ToString(user_id), r.ip1, Uuid(serial + 1))
                     EXCEPT !.session_id = shared_session_id,
                            !.auth_token_id = shared_token_id]
        user2 == [UserBehavior(ToString(user_id + 1000), r.ip2,
                               Uuid(serial + 2))
                     EXCEPT !.session_id = shared_session_id,
                            !.auth_token_id = shared_token_id]
    IN  <<generate_event("auth_token_validated", "pass", user1, store_id,
                         start_time, TRUE, TRUE, Uuid(serial + 1)),
          generate_event("view_books", NULL, user2, store_id,
                         start_time + 1000 * Gap(r.gap, 30, 120),
                         TRUE, TRUE, Uuid(serial + 2))>>

\* normal_users, brute_force, session_sharing = int(count * 0.85),
\* int(count * 0.10), int(count * 0.05)
NormalUsers(count) == (count * 85) \div 100

BruteForce(count) == (count * 10) \div 100

SessionSharing(count) == (count * 5) \div 100

\* events.sort(key=lambda e: e["timestamp"]); events = events[:count]
SortedAndTrimmed(list, count) ==
    LET sorted == SortByTimestamp(list)
    IN  SubSeq(sorted, 1, Min(count, Len(sorted)))

\* The states of os.urandom, which uuid.uuid4() reads: the number of the
\* first identifier a process draws.
Urandom == {0, 1000}

\* The seeds given to random.seed().
Seeds == {1, 2}

\* The n-th value the random module hands out after random.seed(seed): a
\* fixed member of S for every seed and n.
RandomChoice(S, seed, n) ==
    LET order == CHOOSE f \in [1..Cardinality(S) -> S] :
                    \A a, b \in 1..Cardinality(S) : a # b => f[a] # f[b]
    IN  order[((seed + n) % Cardinality(S)) + 1]

\* What the random module can hand out next: one value after random.seed,
\* any value when the generator was seeded from the system.
random(S) ==
    IF gen.seeded THEN {RandomChoice(S, gen.seed, Len(events))} ELSE S

\* The first while loop is over.
NormalDone == cpc # "normal" \/ Len(events) >= NormalUsers(gen.count)

\* generate-test-data.py is started with --count; generate_test_data reads
\* the clock for start_date.
CorpusMain ==
    /\ prog = "none"
    /\ prog' = "generate-test-data.py"
    /\ cpc' = "normal"
    /\ \E count \in Counts, now \in Now, bytes \in Urandom :
          gen' = [count |-> count, start_date |-> now, user_id |-> 1,
                  attack_count |-> 0, sharing_count |-> 0,
                  seeded |-> FALSE, seed |-> 0, urandom |-> bytes]
    /\ UNCHANGED <<scenario_name, scenario_data, runner_vars, stderr,
                   exit_code, events, output, runs>>
    /\ UNCHANGED not_cli_vars

\* One turn of while len(events) < normal_users.
CorpusNormalJourney ==
    /\ prog \in {"generate-test-data.py", "seeded"}
    /\ cpc = "normal"
    /\ Len(events) < NormalUsers(gen.count)
    /\ \E r \in random(JourneyDraws) :
          events' = events \o generate_normal_user_journey(
                       UserBehavior(ToString(gen.user_id), r.ip,
                                    Uuid(gen.urandom + Len(events))),
                       gen.start_date + 1000 * r.start, r.store, r,
                       gen.urandom + Len(events))
    /\ gen' = [gen EXCEPT !.user_id = @ + 1]
    /\ UNCHANGED <<prog, cpc, scenario_name, scenario_data, runner_vars,
                   stderr, exit_code, output, runs>>
    /\ UNCHANGED not_cli_vars

\* One turn of while attack_count < brute_force.
CorpusBruteForce ==
    /\ prog \in {"generate-test-data.py", "seeded"}
    /\ cpc \in {"normal", "brute"}
    /\ NormalDone
    /\ gen.attack_count < BruteForce(gen.count)
    /\ \E r \in random(AttackDraws) :
          LET attack == generate_brute_force_attack(
                           r.ip, gen.start_date + 1000 * r.start, r.store,
                           r, gen.urandom + Len(events))
          IN  /\ events' = events \o attack
              /\ gen' = [gen EXCEPT !.attack_count = @ + Len(attack)]
    /\ cpc' = "brute"
    /\ UNCHANGED <<prog, scenario_name, scenario_data, runner_vars, stderr,
                   exit_code, output, runs>>
    /\ UNCHANGED not_cli_vars

\* One turn of while sharing_count < session_sharing.
CorpusSessionSharing ==
    /\ prog \in {"generate-test-data.py", "seeded"}
    /\ cpc \in {"normal", "brute", "sharing"}
    /\ NormalDone
    /\ gen.attack_count >= BruteForce(gen.count)
    /\ gen.sharing_count < SessionSharing(gen.count)
    /\ \E r \in random(SharingDraws) :
          LET sharing == generate_session_sharing_pattern(
                            r.user_id_base, gen.start_date + 1000 * r.start,
                            r.store, r, gen.urandom + Len(events))
          IN  /\ events' = events \o sharing
              /\ gen' = [gen EXCEPT !.sharing_count = @ + Len(sharing)]
    /\ cpc' = "sharing"
    /\ UNCHANGED <<prog, scenario_name, scenario_data, runner_vars, stderr,
                   exit_code, output, runs>>
    /\ UNCHANGED not_cli_vars

\* After the loops: events.sort, events[:count], return; main writes the
\* list to the output file (an exception of open() ends the program with
\* status 1) and returns.
CorpusSortAndWrite ==
    /\ prog = "generate-test-data.py"
    /\ cpc \in {"normal", "brute", "sharing"}
    /\ NormalDone
    /\ gen.attack_count >= BruteForce(gen.count)
    /\ gen.sharing_count >= SessionSharing(gen.count)
    /\ ~gen.seeded
    /\ events' = SortedAndTrimmed(events, gen.count)
    /\ \/ /\ output' = [written |-> events']
          /\ Exit(0)
       \/ /\ Exit(1)
          /\ UNCHANGED output
    /\ UNCHANGED <<prog, scenario_name, scenario_data, runner_vars, stderr,
                   gen, runs>>
    /\ UNCHANGED not_cli_vars

\* A test seeds the random module and calls generate_test_data(count); the
\* second call repeats the seed and the count of the first.
SeededCall ==
    /\ \/ prog = "none"
       \/ prog = "seeded" /\ cpc = "returned" /\ Len(runs) < 2
    /\ prog' = "seeded"
    /\ cpc' = "normal"
    /\ events' = <<>>
    /\ \E count \in {3, MaxGenCount}, seed \in Seeds, now \in Now,
          bytes \in Urandom :
          /\ runs # <<>> => count = runs[1].count /\ seed = runs[1].seed
          /\ gen' = [count |-> count, start_date |-> now, user_id |-> 1,
                     attack_count |-> 0, sharing_count |-> 0,
                     seeded |-> TRUE, seed |-> seed, urandom |-> bytes]
    /\ UNCHANGED <<scenario_name, scenario_data, runner_vars, stderr,
                   exit_code, output, runs>>
    /\ UNCHANGED not_cli_vars

\* generate_test_data sorts, trims and returns its list to the test.
SeededReturn ==
    /\ prog = "seeded"
    /\ cpc \in {"normal", "brute", "sharing"}
    /\ NormalDone
    /\ gen.attack_count >= BruteForce(gen.count)
    /\ gen.sharing_count >= SessionSharing(gen.count)
    /\ events' = SortedAndTrimmed(events, gen.count)
    /\ runs' = Append(runs, [seed |-> gen.seed, count |-> gen.count,
                             events |-> events'])
    /\ cpc' = "returned"
    /\ UNCHANGED <<prog, scenario_name, scenario_data, runner_vars, stderr,
                   exit_code, output, gen>>
    /\ UNCHANGED not_cli_vars

NextSeed ==
    \/ SeededCall
    \/ CorpusNormalJourney
    \/ CorpusBruteForce
    \/ CorpusSessionSharing
    \/ SeededReturn

SpecSeed == Init /\ [][NextSeed]_vars

NextGen ==
    \/ ScenarioMain
    \/ ScenarioLoadScenario
    \/ ScenarioGenerate
    \/ CorpusMain
    \/ CorpusNormalJourney
    \/ CorpusBruteForce
    \/ CorpusSessionSharing
    \/ CorpusSortAndWrite

SpecGen == Init /\ [][NextGen]_vars

\* ------------------------------- a session sharing fixture (SpecFixture)
\* The draws of the pattern that makes the fixture: every mix of start,
\* store, gap, user_id_base and the two addresses.
FixtureDraws ==
    [start : {0, 60}, store : {"store-1", "store-2"}, gap : {"min", "max"},
     user_id_base : {1000, 5000}, ip1 : IPs, ip2 : IPs]

\* generate_session_sharing_pattern is called on its own and its two events
\* are written to the fixture file.
SharingPatternCall ==
    /\ prog = "none"
    /\ prog' = "fixture"
    /\ cpc' = "exited"
    /\ \E r \in FixtureDraws, now \in Now :
          events' = generate_session_sharing_pattern(
                       r.user_id_base, now + 1000 * r.start, r.store, r, 0)
    /\ output' = [written |-> events']
    /\ UNCHANGED <<scenario_name, scenario_data, runner_vars, stderr,
                   exit_code, gen, runs>>
    /\ UNCHANGED not_cli_vars

\* load_data is started on the fixture file against the empty graph: the
\* events are read as the file has them, keys without a value absent.
LoadFixtureStart ==
    /\ pc = "idle"
    /\ prog = "fixture"
    /\ graph = EmptyGraph
    /\ corpus' = [k \in 1..Len(output.written) |-> RawEvent(output.written[k])]
    /\ \E size \in 1..MaxBatch : batch_size' = size
    /\ pc' = "batches"
    /\ stdout' = <<>>
    /\ i' = 0
    /\ total_created' = 0
    /\ temporal_count' = 0
    /\ UNCHANGED <<graph, derived>>
    /\ UNCHANGED <<calls, rest_vars>>

NextFixture ==
    \/ SharingPatternCall
    \/ LoadFixtureStart
    \/ LoadDataBatch
    \/ LoadDataBatchFails

SpecFixture == Init /\ [][NextFixture]_vars

\* --------------------------------------- one normal journey (SpecJourney)
\* Every outcome of the draws of one journey, each gap at its low or its
\* high end: 2 to 5 browse events, with and without cart and checkout.
AllJourneyDraws ==
    [start : {0}, ip : {"ip1"}, store : {"store-1"},
     created : {"min", "max"}, validated : {"min", "max"},
     browse : UNION {[1..n -> {"min", "max"}] : n \in 2..5},
     cart : BOOLEAN, carted : {"min", "max"}, checkout : BOOLEAN]

\* generate_normal_user_journey is called on its own.
JourneyCall ==
    /\ prog = "none"
    /\ prog' = "journey"
    /\ cpc' = "returned"
    /\ \E r \in AllJourneyDraws, now \in Now :
          events' = generate_normal_user_journey(
                       UserBehavior("1", r.ip, Uuid(0)), now, r.store, r, 0)
    /\ UNCHANGED <<scenario_name, scenario_data, runner_vars, stderr,
                   exit_code, output, gen, runs>>
    /\ UNCHANGED not_cli_vars

NextJourney == JourneyCall

SpecJourney == Init /\ [][NextJourney]_vars

\* ----------------------------------------- one brute force attack (SpecAttack)
\* Every outcome of the draws of one attack: 15 to 30 attempts, the gaps at
\* their low or high end.
AllAttackDraws ==
    [start : {0}, ip : IPs, store : {"store-1", "store-2"},
     gap : {"min", "max"}, attempts : 15..30]

\* generate_brute_force_attack is called on its own.
AttackCall ==
    /\ prog = "none"
    /\ prog' = "attack"
    /\ cpc' = "returned"
    /\ \E r \in AllAttackDraws, now \in Now :
          events' = generate_brute_force_attack(r.ip, now, r.store, r, 0)
    /\ UNCHANGED <<scenario_name, scenario_data, runner_vars, stderr,
                   exit_code, output, gen, runs>>
    /\ UNCHANGED not_cli_vars

NextAttack == AttackCall

SpecAttack == Init /\ [][NextAttack]_vars

\* ----------------------------------------- book store requests (SpecStore)
\* The requests one run of the service answers.
MaxRequests == 3

not_shop_vars == <<graph, derived, calls, load_vars, parse_vars, cli_vars>>

\* get_current_user: the user of the bearer token, Unset when the request
\* has no valid one and is answered 401.
CurrentUsers == {[id |-> u] : u \in Users} \cup {Unset}

\* The store_id of the path: the known stores and an unknown one.
RequestStores == BookStores \cup {"store-0"}

\* The book_id of the body: the books and an id no book has.
RequestBooks == DOMAIN SeedBooks \cup {99}

\* The quantity of the body, within and outside CartItemCreate's range.
Quantities == {0, 3, 6, 11}

\* The cart_item_id of the path.
CartItemIds == {1, 2, 99}

\* CartItemCreate: quantity is Field(ge=1, le=10).
CartItemCreate(quantity) == quantity >= 1 /\ quantity <= 10

\* The answer to a request, with the Database as the request found it.
Answer(req, status_code, detail) ==
    [n |-> response.n + 1, handler |-> req.handler,
     current_user |-> req.current_user, store_id |-> req.store_id,
     book_id |-> req.book_id, quantity |-> req.quantity,
     cart_item_id |-> req.cart_item_id, status_code |-> status_code,
     detail |-> detail, before |-> db]

Request(handler, current_user, store_id, book_id, quantity, cart_item_id) ==
    [handler |-> handler, current_user |-> current_user,
     store_id |-> store_id, book_id |-> book_id, quantity |-> quantity,
     cart_item_id |-> cart_item_id]

\* POST /api/v1/{store_id}/cart/items
CartAddToCart ==
    /\ response.n < MaxRequests
    /\ \E current_user \in CurrentUsers, store_id \in RequestStores,
          book_id \in RequestBooks, quantity \in Quantities :
          LET req == Request("add_to_cart", current_user, store_id,
                             book_id, quantity, 0)
              book == get_book(db, book_id)
          IN  IF current_user = Unset
              THEN /\ response' = Answer(req, 401, "Not authenticated")
                   /\ db' = db
              ELSE IF ~CartItemCreate(quantity)
              THEN /\ response' = Answer(req, 422, "validation error")
                   /\ db' = db
              ELSE IF ~is_valid_store(store_id)
              THEN /\ response' = Answer(req, 404, "Store not found")
                   /\ db' = db
              ELSE IF book = Unset
              THEN /\ response' = Answer(req, 404, "Book not found")
                   /\ db' = db
              ELSE IF book.stock_count < quantity
              THEN /\ response' = Answer(req, 400,
                          "Insufficient stock. Only "
                          \o ToString(book.stock_count) \o " available")
                   /\ db' = db
              ELSE /\ db' = add_to_cart(db, current_user.id, book_id,
                                        quantity).db
                   /\ response' = Answer(req, 201, "Item added to cart")
    /\ UNCHANGED not_shop_vars

\* DELETE /api/v1/{store_id}/cart/items/{cart_item_id}
CartRemoveFromCart ==
    /\ response.n < MaxRequests
    /\ \E current_user \in CurrentUsers, store_id \in RequestStores,
          cart_item_id \in CartItemIds :
          LET req == Request("remove_from_cart", current_user, store_id,
                             0, 0, cart_item_id)
          IN  IF current_user = Unset
              THEN /\ response' = Answer(req, 401, "Not authenticated")
                   /\ db' = db
              ELSE IF ~is_valid_store(store_id)
              THEN /\ response' = Answer(req, 404, "Store not found")
                   /\ db' = db
              ELSE LET removed == remove_from_cart(db, current_user.id,
                                                   cart_item_id)
                   IN  /\ db' = removed.db
                       /\ response' =
                              IF ~removed.result
                              THEN Answer(req, 404, "Cart item not found")
                              ELSE Answer(req, 204, NULL)
    /\ UNCHANGED not_shop_vars

\* The subtotal checkout adds up over the cart, in cents.
RECURSIVE Subtotal(_, _)
Subtotal(d, cart_items) ==
    IF cart_items = <<>> THEN 0
    ELSE get_book(d, Head(cart_items).book_id).price
             * Head(cart_items).quantity
         + Subtotal(d, Tail(cart_items))

\* The cart lines checkout refuses: the book is gone or its stock is short.
Refused(d, cart_items) ==
    {k \in 1..Len(cart_items) :
        LET book == get_book(d, cart_items[k].book_id)
        IN  \/ book = Unset
            \/ book.stock_count < cart_items[k].quantity}

\* POST /api/v1/checkout, the body being a valid CheckoutRequest.
OrdersCheckout ==
    /\ response.n < MaxRequests
    /\ \E current_user \in CurrentUsers :
          LET req == Request("checkout", current_user, NULL, 0, 0, 0)
          IN  IF current_user = Unset
              THEN /\ response' = Answer(req, 401, "Not authenticated")
                   /\ db' = db
              ELSE LET cart_items == get_cart(db, current_user.id)
                       refused == Refused(db, cart_items)
                       subtotal == Subtotal(db, cart_items)
                       tax == (subtotal * 8) \div 100
                       total == subtotal + tax
                   IN  IF cart_items = <<>>
                       THEN /\ response' = Answer(req, 400, "Cart is empty")
                            /\ db' = db
                       ELSE IF refused # {}
                       THEN LET k == CHOOSE h \in refused :
                                         \A o \in refused : h <= o
                                book == get_book(db, cart_items[k].book_id)
                            IN  /\ response' = Answer(req, 400,
                                       IF book = Unset THEN "Book not found"
                                       ELSE "Insufficient stock")
                                /\ db' = db
                       ELSE /\ db' = clear_cart(
                                       create_order(db, current_user.id,
                                                    cart_items, total).db,
                                       current_user.id)
                            /\ response' = Answer(req, 201, "confirmed")
    /\ UNCHANGED not_shop_vars

NextStore ==
    \/ CartAddToCart
    \/ CartRemoveFromCart
    \/ OrdersCheckout

SpecStore == Init /\ [][NextStore]_vars

NextCli ==
    \/ AssertionsMain
    \/ AssertionsLoadScenario
    \/ AssertionsVerifyConnection
    \/ RunAllAssertionsStart
    \/ RunAssertion
    \/ RunAllAssertionsEnd
    \/ ScenarioMain
    \/ ScenarioLoadScenario
    \/ ScenarioGenerate

SpecCli == Init /\ [][NextCli]_vars

\* ------------------------------------------------------------------ claims
Range(s) == {s[k] : k \in DOMAIN s}

\* How many times each element occurs in a sequence.
BagOfSeq(s) == [x \in Range(s) |-> Cardinality({k \in DOMAIN s : s[k] = x})]

\* The relationships of one type that leave Event node e.
RelsFrom(g, type, e) ==
    {r \in 1..Len(g.rels) : g.rels[r].type = type /\ g.rels[r].from = e}

\* C1: after any sequence of load_events_batch calls the graph holds at most
\* one IPAddress node per address, one Session node per session_id, one User
\* node per user_id and one Store node per store_id.
C1_OneNodePerKey ==
    /\ \A a, b \in 1..Len(graph.ips) :
          graph.ips[a].address = graph.ips[b].address => a = b
    /\ \A a, b \in 1..Len(graph.sessions) :
          graph.sessions[a].session_id = graph.sessions[b].session_id => a = b
    /\ \A a, b \in 1..Len(graph.users) :
          graph.users[a].user_id = graph.users[b].user_id => a = b
    /\ \A a, b \in 1..Len(graph.stores) :
          graph.stores[a].store_id = graph.stores[b].store_id => a = b

\* C1 witness: one batch of one event that carries every key was applied
\* twice, and each entity has one node.
C1_Witness ==
    /\ Len(graph.events) = 2
    /\ graph.events[1] = graph.events[2]
    /\ graph.events[1].session_id # NULL
    /\ graph.events[1].user_id # NULL
    /\ graph.events[1].store_id # NULL
    /\ Len(graph.ips) = 1 /\ Len(graph.sessions) = 1
    /\ Len(graph.users) = 1 /\ Len(graph.stores) = 1

\* C2 (as claimed): when exactly two events with timestamps T1 < T2 were
\* upserted onto one IPAddress, its first_seen is T1 and its last_seen is T2,
\* whichever of the two was applied first.
C2_WatermarksAnyOrder ==
    \A a, b \in 1..Len(graph.events) :
        (/\ Len(graph.events) = 2
         /\ graph.events[a].client_ip = graph.events[b].client_ip
         /\ graph.events[a].timestamp < graph.events[b].timestamp)
        => \A j \in MatchIPAddress(graph.ips, graph.events[a].client_ip) :
              /\ graph.ips[j].first_seen = graph.events[a].timestamp
              /\ graph.ips[j].last_seen = graph.events[b].timestamp

\* The key of the node a relationship points to.
TargetKey(g, rel) ==
    CASE rel.type = "ORIGINATED_FROM" -> g.ips[rel.to].address
      [] rel.type = "IN_SESSION" -> g.sessions[rel.to].session_id
      [] rel.type = "PERFORMED_BY" -> g.users[rel.to].user_id
      [] rel.type = "TARGETED_STORE" -> g.stores[rel.to].store_id

\* A graph up to the identity of its nodes: which nodes with which
\* properties, and which relationships between which of them.
Content(g) ==
    [events   |-> BagOfSeq(g.events),
     ips      |-> BagOfSeq(g.ips),
     sessions |-> BagOfSeq(g.sessions),
     users    |-> BagOfSeq(g.users),
     stores   |-> BagOfSeq(g.stores),
     rels     |-> BagOfSeq([r \in 1..Len(g.rels) |->
                     [type |-> g.rels[r].type,
                      event |-> g.events[g.rels[r].from],
                      key |-> TargetKey(g, g.rels[r]),
                      timestamp |-> g.rels[r].timestamp]])]

\* C3 (as claimed): applying the same batches in another order yields the
\* same final graph: however the events of the graph are split into a first
\* and a second batch, applying the second batch before the first gives the
\* same nodes, relationships and entity properties.
C3_BatchOrderIrrelevant ==
    \A k \in 1..(Len(graph.events) - 1) :
        LET first  == SubSeq(graph.events, 1, k)
            second == SubSeq(graph.events, k + 1, Len(graph.events))
            swapped == load_events_batch(
                           load_events_batch(EmptyGraph, second).graph,
                           first).graph
        IN  Content(swapped) = Content(graph)

\* The relationships of one type that Event node e must have for a field
\* with this value: one, to the node with that key, when the value is
\* present, and none when it is absent.
EdgeFor(g, type, e, value) ==
    IF value = NULL
    THEN RelsFrom(g, type, e) = {}
    ELSE /\ Cardinality(RelsFrom(g, type, e)) = 1
         /\ \A r \in RelsFrom(g, type, e) : TargetKey(g, g.rels[r]) = value

\* C4: every event loaded has its Event node, one ORIGINATED_FROM edge to the
\* IPAddress of its client_ip and exactly one IN_SESSION, PERFORMED_BY,
\* TARGETED_STORE edge per present field, to the entity with that key; an
\* absent field gives no edge and no entity node, whatever the other fields.
C4_EdgesPerPresentField ==
    /\ \A e \in 1..Len(graph.events) :
          /\ Cardinality(RelsFrom(graph, "ORIGINATED_FROM", e)) = 1
          /\ EdgeFor(graph, "ORIGINATED_FROM", e, graph.events[e].client_ip)
          /\ EdgeFor(graph, "IN_SESSION", e, graph.events[e].session_id)
          /\ EdgeFor(graph, "PERFORMED_BY", e, graph.events[e].user_id)
          /\ EdgeFor(graph, "TARGETED_STORE", e, graph.events[e].store_id)
    /\ \A j \in 1..Len(graph.sessions) :
          \E e \in 1..Len(graph.events) :
             graph.events[e].session_id = graph.sessions[j].session_id
    /\ \A j \in 1..Len(graph.users) :
          \E e \in 1..Len(graph.events) :
             graph.events[e].user_id = graph.users[j].user_id
    /\ \A j \in 1..Len(graph.stores) :
          \E e \in 1..Len(graph.events) :
             graph.events[e].store_id = graph.stores[j].store_id
    /\ Len(graph.rels) =
          Cardinality({<<e, f>> \in (1..Len(graph.events)) \X
                                    {"client_ip", "session_id", "user_id", "store_id"} :
                          graph.events[e][f] # NULL})

\* C4 witness: two events were loaded, one with a store but neither session
\* nor user, one with a session and a user but no store, each with its edges.
C4_Witness ==
    \E a, b \in 1..Len(graph.events) :
        /\ graph.events[a].session_id = NULL
        /\ graph.events[a].user_id = NULL
        /\ graph.events[a].store_id # NULL
        /\ Cardinality(RelsFrom(graph, "TARGETED_STORE", a)) = 1
        /\ graph.events[b].session_id # NULL
        /\ graph.events[b].user_id # NULL
        /\ graph.events[b].store_id = NULL
        /\ Cardinality(RelsFrom(graph, "IN_SESSION", b)) = 1
        /\ Cardinality(RelsFrom(graph, "PERFORMED_BY", b)) = 1
        /\ Len(graph.users) = 1 /\ Len(graph.stores) = 1

\* A batch write has failed: load_data ended with its exception inside the loop.
BatchFailed == pc = "raised" /\ i < Len(corpus)

\* Event nodes in the graph when the current run of load_data began.
EventsBefore == Len(graph.events) - total_created

DeriverRan == \E k \in 1..Len(stdout) : stdout[k].line = "created"

\* One corpus was loaded into an empty graph and the deriver has run once.
LoadedAndDerived == DeriverRan /\ graph.events = PreparedBatch(corpus)

\* The Event nodes whose session_id is sid.
EventsOf(g, sid) == {e \in 1..Len(g.events) : g.events[e].session_id = sid}

\* The NEXT_EVENT relationships with an end among the events of sid.
NextEventsOf(g, sid) ==
    {p \in BagToSet(g.next_event) :
        p.from \in EventsOf(g, sid) \/ p.to \in EventsOf(g, sid)}

\* The arrangements of a set of Event nodes in ascending timestamp order.
TimeOrders(g, S) ==
    {o \in [1..Cardinality(S) -> S] :
        /\ \A a, b \in 1..Cardinality(S) : a # b => o[a] # o[b]
        /\ \A k \in 1..(Cardinality(S) - 1) :
              g.events[o[k]].timestamp <= g.events[o[k + 1]].timestamp}

\* C6: after one corpus is loaded and the deriver has run, every session with
\* N >= 2 events has exactly N-1 NEXT_EVENT edges, which link the events of
\* the session pairwise in one ascending timestamp order, each with
\* time_delta >= 0; a session with one event has none.
C6_ChainPerSession ==
    LoadedAndDerived =>
        \A sid \in SessionIds :
            LET S == EventsOf(graph, sid)
                E == NextEventsOf(graph, sid)
            IN  /\ \A p \in E : CopiesIn(p, graph.next_event) = 1
                              /\ p.time_delta_ms >= 0
                /\ Cardinality(S) >= 2 => Cardinality(E) = Cardinality(S) - 1
                /\ Cardinality(S) <= 1 => E = {}
                /\ \E o \in TimeOrders(graph, S) :
                      {<<p.from, p.to>> : p \in E}
                          = {<<o[k], o[k + 1]>> : k \in 1..(Cardinality(S) - 1)}

\* C6 witness: a corpus of three events of one session, not in timestamp
\* order in the file, was loaded and derived into two edges.
C6_Witness ==
    /\ LoadedAndDerived
    /\ Len(corpus) = 3
    /\ \A k \in 1..3 : graph.events[k].session_id = "s1"
    /\ graph.events[1].timestamp > graph.events[2].timestamp
    /\ graph.events[2].timestamp < graph.events[3].timestamp
    /\ BagCardinality(graph.next_event) = 2

\* C7 (as claimed): a run of create_temporal_relationships on a graph that
\* has not changed since the previous run creates no NEXT_EVENT edge: the
\* edges after it are the edges before it, equal timestamps or not.
C7_SecondRunCreatesNothing ==
    [][(derived /\ pc = "batches" /\ pc' = "done")
          => graph'.next_event = graph.next_event]_vars

\* C8: every NEXT_EVENT edge connects two Event nodes that have the same
\* session_id and are both linked IN_SESSION to the same Session node.
C8_SameSessionOnly ==
    \A p \in BagToSet(graph.next_event) :
        /\ graph.events[p.from].session_id # NULL
        /\ graph.events[p.from].session_id = graph.events[p.to].session_id
        /\ \E s \in 1..Len(graph.sessions) :
              /\ \E r \in RelsFrom(graph, "IN_SESSION", p.from) : graph.rels[r].to = s
              /\ \E r \in RelsFrom(graph, "IN_SESSION", p.to) : graph.rels[r].to = s

\* C8 witness: an edge links two events of one session while an event of
\* another session lies between them, in the file and in time.
C8_Witness ==
    \E p \in BagToSet(graph.next_event) :
        \E x \in 1..Len(graph.events) :
            /\ graph.events[x].session_id # NULL
            /\ graph.events[x].session_id # graph.events[p.from].session_id
            /\ p.from < x /\ x < p.to
            /\ graph.events[p.from].timestamp <= graph.events[x].timestamp
            /\ graph.events[x].timestamp <= graph.events[p.to].timestamp

\* C9 (as claimed): the value create_temporal_relationships returns is the
\* number of NEXT_EVENT edges that run created; edges that existed before the
\* run are not counted.
C9_ReturnsCreatedCount ==
    [][(pc = "batches" /\ pc' = "done")
          => temporal_count' = BagCardinality(graph'.next_event)
                                   - BagCardinality(graph.next_event)]_vars

\* C10: load_data invokes create_temporal_relationships only after every
\* batch of the corpus has been applied: whenever the deriver has run in a
\* run of load_data, all events of the corpus are in the graph; and inside
\* the loop, once a batch has committed, the deriver has not run since.
C10_DeriverAfterAllBatches ==
    /\ DeriverRan =>
          /\ total_created = Len(corpus)
          /\ \A k \in 1..Len(corpus) :
                graph.events[EventsBefore + k] = PreparedEvent(corpus[k])
    /\ (pc = "batches" /\ total_created > 0) => ~derived /\ ~DeriverRan

\* C10 witness: the deriver ran after a corpus of three events had been
\* applied in two batches.
C10_Witness ==
    /\ DeriverRan
    /\ Len(corpus) = 3
    /\ batch_size = 2
    /\ total_created = 3
    /\ BagCardinality(graph.next_event) > 0


\* C11: load_data hands the corpus to load_events_batch in consecutive
\* batches: each committed batch is the next at most batch_size events of
\* the corpus in corpus order, only the last batch is shorter than
\* batch_size, and when the loop ends with every batch committed the Event
\* nodes added are the whole corpus, each event once and in order, and
\* total_created is the number of events of the corpus.
C11_ConsecutiveBatches ==
    [][/\ (pc = "batches" /\ pc' = "batches"
           /\ total_created' # total_created)
          => LET n == total_created' - total_created
             IN  /\ n \in 1..batch_size
                 /\ n < batch_size => total_created' = Len(corpus)
                 /\ graph'.events =
                       graph.events \o
                       PreparedBatch(SubSeq(corpus, total_created + 1,
                                            total_created + n))
       /\ (pc = "batches" /\ pc' = "done")
          => /\ total_created = Len(corpus)
             /\ SubSeq(graph.events, EventsBefore + 1, Len(graph.events))
                   = PreparedBatch(corpus)
      ]_vars

\* C11 witness: a corpus of three events was loaded with batch_size 2, in a
\* batch of two and a last batch of one.
C11_Witness ==
    /\ pc = "batches"
    /\ batch_size = 2
    /\ Len(corpus) = 3
    /\ i = 4
    /\ total_created = 3
    /\ SubSeq(graph.events, EventsBefore + 1, Len(graph.events))
          = PreparedBatch(corpus)


\* The keys of a list of entity nodes, in node order.
Keys(nodes, key) == [k \in 1..Len(nodes) |-> nodes[k][key]]

\* C12: when a batch of n events that was applied to the empty graph is
\* applied a second time, the graph holds n further Event nodes (every event
\* of the batch twice) and a second copy of each ORIGINATED_FROM, IN_SESSION,
\* PERFORMED_BY and TARGETED_STORE edge of the first application, while the
\* IPAddress, Session, User and Store nodes are the ones the first
\* application left.
C12_ReapplyDuplicates ==
    (Len(calls) = 2 /\ calls[1] = calls[2])
    => LET n == Len(calls[1])
           once == load_events_batch(EmptyGraph, calls[1]).graph
       IN  /\ Len(once.events) = n
           /\ Len(graph.events) = 2 * n
           /\ Content(graph).events
                 = Content(once).events (+) Content(once).events
           /\ Len(graph.rels) = 2 * Len(once.rels)
           /\ Content(graph).rels = Content(once).rels (+) Content(once).rels
           /\ Keys(graph.ips, "address") = Keys(once.ips, "address")
           /\ Keys(graph.sessions, "session_id")
                 = Keys(once.sessions, "session_id")
           /\ Keys(graph.users, "user_id") = Keys(once.users, "user_id")
           /\ Keys(graph.stores, "store_id") = Keys(once.stores, "store_id")

\* C12 witness: a batch of two events, one of them in a session and with a
\* user, was applied twice.
C12_Witness ==
    /\ Len(calls) = 2
    /\ calls[1] = calls[2]
    /\ Len(calls[1]) = 2
    /\ calls[1][1].session_id # NULL
    /\ calls[1][2].user_id # NULL
    /\ Len(graph.events) = 4
    /\ Len(graph.sessions) = 1
    /\ Len(graph.rels) >= 6


\* The text of an expression: a string value of the scenario file.
Text(chars) == [type |-> "str", value |-> chars]

\* An integer as it is written: a sign when negative, then the digits.
Numeral(n) == str([type |-> "int", value |-> n])

Blanks == {<<>>, <<" ">>}

\* C13: parse_expected_count maps an integer n to ("==", n); a string made
\* of ">=", ">", "<=" or "<", an optional blank and an integer N to that
\* operator with N, the two-character operators being recognised as
\* themselves and not as ">" or "<"; and "~N-M" to (">=", N) whatever M is.
C13_ParsesGrammar ==
    parsed # Unset =>
       /\ expected.type = "int" => parsed = Returned("==", expected.value)
       /\ (expected.type = "str" /\ expected.value # <<>>
           /\ Head(expected.value) \in {">", "<"})
          => \A operator \in {">=", ">", "<=", "<"}, blank \in Blanks,
                N \in (0 - MaxCount)..MaxCount :
                expected = Text(OperatorChars(operator) \o blank
                                \o Numeral(N))
                => parsed = Returned(operator, N)
       /\ (expected.type = "str" /\ expected.value # <<>>
           /\ Head(expected.value) = "~")
          => \A N \in 0..MaxCount, M \in (0 - MaxCount)..MaxCount :
                expected = Text(<<"~">> \o Numeral(N) \o <<"-">>
                                \o Numeral(M))
                => parsed = Returned(">=", N)

\* C13 witness: the range "~1-2" was parsed, to (">=", 1).
C13_Witness ==
    /\ expected = Text(<<"~", "1", "-", "2">>)
    /\ parsed = Returned(">=", 1)


\* An integer as the grammar writes it: an optional minus sign and digits.
IsNumeral(s) ==
    LET body == IF s # <<>> /\ Head(s) = "-" THEN Tail(s) ELSE s
    IN  body # <<>> /\ \A k \in 1..Len(body) : body[k] \in Digits

\* One of ">=", ">", "<=", "<", blanks or none, and an integer.
IsOperatorForm(s) ==
    \E operator \in {">=", ">", "<=", "<"} :
       /\ startswith(s, OperatorChars(operator))
       /\ IsNumeral(strip(SubSeq(s, Len(OperatorChars(operator)) + 1,
                                 Len(s))))

\* "~N-M": a count N, the separator and an integer M.
IsRange(s) ==
    /\ s # <<>>
    /\ Head(s) = "~"
    /\ \E k \in 2..Len(s) :
          /\ s[k] = "-"
          /\ k > 2
          /\ \A j \in 2..(k - 1) : s[j] \in Digits
          /\ IsNumeral(SubSeq(s, k + 1, Len(s)))

\* The forms of the expected-count grammar, blanks around them allowed.
InGrammar(value) ==
    \/ value.type = "int"
    \/ /\ value.type = "str"
       /\ LET s == strip(value.value)
          IN  IsNumeral(s) \/ IsOperatorForm(s) \/ IsRange(s)

\* C14 (as claimed): for an expected_result_count outside the grammar (not
\* an integer, not an operator followed by an integer, not a ~N-M range)
\* parse_expected_count raises an error that names the expression, and
\* returns no (operator, value).
C14_OthersFailNamed ==
    (parsed # Unset /\ ~InGrammar(expected))
    => /\ "raised" \in DOMAIN parsed
       /\ parsed.names = str(expected)


\* Whether actual stands in the relation the operator names to value.
Holds(operator, actual, value) ==
    \/ operator = "==" /\ actual = value
    \/ operator = ">=" /\ actual >= value
    \/ operator = ">" /\ actual > value
    \/ operator = "<=" /\ actual <= value
    \/ operator = "<" /\ actual < value

\* C15: a run_assertion call returns True (and prints PASS) exactly when it
\* sent the query and the store answered, the expectation parsed, and the
\* number of records stands in the parsed relation to the expected value;
\* in every other case (no query, expectation not parsed, query raised,
\* relation not met, operator unknown) it returns False.
C15_PassIffRelationHolds ==
    \A k \in 1..Len(results) :
       LET call == results[k]
           count == parse_expected_count(
                       scenario_data.abuse_assertions[call.index]
                          .expected_result_count)
       IN  /\ call.outcome.returned
              <=> /\ call.outcome.sent
                  /\ ~call.store.raises
                  /\ "operator" \in DOMAIN count
                  /\ Holds(count.operator, call.store.records, count.value)
           /\ call.outcome.returned <=> call.outcome.printed = "PASS"

\* C15 witness: of two assertions that expect "<2", the one whose query gave
\* one record passed and the one whose query gave two records failed.
C15_Witness ==
    /\ Len(results) = 2
    /\ \A k \in 1..2 :
          scenario_data.abuse_assertions[k] =
             [query |-> "MATCH",
              expected_result_count |-> Text(<<"<", "2">>)]
    /\ results[1].store = [raises |-> FALSE, records |-> 1]
    /\ results[1].outcome = Outcome("PASS", TRUE, TRUE)
    /\ results[2].store = [raises |-> FALSE, records |-> 2]
    /\ results[2].outcome = Outcome("FAIL", TRUE, FALSE)

\* The loop of run_all_assertions has ended and main has exited.
RanAllAssertions == cpc = "exited" /\ total_assertions > 0

\* C16: run_all_assertions calls run_assertion on every assertion of the
\* scenario once and in list order: the k-th call is for the k-th assertion,
\* and when the loop has ended there were as many calls as assertions, also
\* when calls before the last returned False (FAIL, ERROR for an expectation
\* that does not parse or a query that raised, SKIP); every such call is
\* counted in failed_assertions.
C16_EveryAssertionOnceInOrder ==
    /\ \A k \in 1..Len(results) : results[k].index = k
    /\ cpc = "assertions" => Len(results) = assertion_index - 1
    /\ RanAllAssertions
       => Len(results) = Len(scenario_data.abuse_assertions)
    /\ failed_assertions
         = Cardinality({k \in 1..Len(results) : ~results[k].outcome.returned})

\* C16 witness: the first of two assertions has an expectation that does not
\* parse, the query of the second raised, and both were run.
C16_Witness ==
    /\ RanAllAssertions
    /\ Len(results) = 2
    /\ scenario_data.abuse_assertions[1].expected_result_count
          = Text(<<"x">>)
    /\ results[1].outcome = Outcome("ERROR", FALSE, FALSE)
    /\ results[2].outcome = Outcome("ERROR", TRUE, FALSE)
    /\ failed_assertions = 2

C19_NotFoundBeforeAnyWork ==
    (prog \in {"scenario.py", "assertions.py"}
     /\ scenario_name \notin ScenarioStems)
    => /\ cpc \in {"load_scenario", "exited"}
       /\ events = <<>>
       /\ output = Unset
       /\ queries = <<>>
       /\ results = <<>>
       /\ cpc = "exited"
          => /\ exit_code = 1
             /\ Len(stderr) = 2
             /\ stderr[1] = [line |-> "Error: Scenario file not found",
                             names |-> {scenario_name}]
             /\ stderr[2].line = "Available scenarios:"
             /\ ScenarioStems \ {"blueprint"} \subseteq stderr[2].names
             /\ stderr[2].names \subseteq ScenarioStems

\* C19 witness: scenario.py was run with a name that has no file and has
\* exited with the list of the available scenarios.
C19_Witness ==
    /\ prog = "scenario.py"
    /\ scenario_name = "no-such-scenario"
    /\ cpc = "exited"
    /\ exit_code = 1
    /\ Len(stderr) = 2
    /\ "session-sharing" \in stderr[2].names
    /\ events = <<>>

\* The exit status of load.py once load_data is over: main calls load_data
\* and returns, which is status 0; an exception that leaves load_data ends
\* the interpreter with status 1.
LoadExitStatus == IF pc = "raised" THEN 1 ELSE 0

\* load_data printed the error of a failed verify_connection.
StoreUnreachable == \E k \in 1..Len(stdout) : stdout[k].line = "error"

\* C18: a CLI ends with exit code 0 only when the whole operation succeeded
\* and with 1 on any failure; for the loader: when load_data is over, the
\* status is 0 exactly when the store was reachable and nothing was raised.
C18_ExitZeroOnlyOnSuccess ==
    pc \in {"done", "raised"} =>
        (LoadExitStatus = 0 <=> (~StoreUnreachable /\ pc = "done"))

\* The same for assertions.py and scenario.py: assertions.py exits with 0
\* exactly when run_all_assertions returned True, scenario.py exactly when
\* the fixture was written.
C18_RunnerAndFixtureExit ==
    cpc = "exited" =>
        /\ exit_code \in {0, 1}
        /\ prog = "assertions.py" =>
              (exit_code = 0 <=> success = [returned |-> TRUE])
        /\ prog = "scenario.py" => (exit_code = 0 <=> output # Unset)

\* C20: the event list a generator hands downstream (generate_test_data of
\* generate-test-data.py, ScenarioGenerator.generate of scenario.py with its
\* scenario and noise events) is in ascending order of time: of every two
\* adjacent events the first one's timestamp is not later than the second's.
C20_SortedAscending ==
    output # Unset =>
        \A k \in 1..(Len(output.written) - 1) :
            fromisoformat(output.written[k].timestamp)
                <= fromisoformat(output.written[k + 1].timestamp)

\* The same on the timestamp strings, which is what the sort compares.
C20_SortedByString ==
    output # Unset =>
        \A k \in 1..(Len(output.written) - 1) :
            ~StrLess(output.written[k + 1].timestamp, output.written[k].timestamp)

\* Every batch of the fixture has been committed.
FixtureLoaded ==
    prog = "fixture" /\ pc = "batches" /\ ~InRange(i, Len(corpus))
    /\ Len(corpus) > 0

\* The User nodes that some Event IN_SESSION of session node s is
\* PERFORMED_BY.
UsersOfSession(g, s) ==
    {u \in 1..Len(g.users) :
        \E a, b \in 1..Len(g.rels) :
            /\ g.rels[a].type = "IN_SESSION" /\ g.rels[a].to = s
            /\ g.rels[b].type = "PERFORMED_BY" /\ g.rels[b].to = u
            /\ g.rels[a].from = g.rels[b].from}

\* The Session nodes with more than one distinct User.
SharedSessions(g) ==
    {s \in 1..Len(g.sessions) : Cardinality(UsersOfSession(g, s)) > 1}

\* C21: after a session sharing fixture (two events of two distinct users
\* on one session_id) is loaded into the empty graph, exactly one Session
\* node has events PERFORMED_BY more than one distinct User.
C21_OneSharedSession ==
    FixtureLoaded => Cardinality(SharedSessions(graph)) = 1

\* The fixture was loaded one event per batch, and both users came from the
\* same address.
C21_Witness ==
    /\ FixtureLoaded
    /\ batch_size = 1
    /\ Len(graph.events) = 2
    /\ Len(graph.ips) = 1
    /\ Len(graph.users) = 2
    /\ graph.events[1].session_id = graph.events[2].session_id
    /\ graph.events[1].user_id # graph.events[2].user_id

\* C22: two runs of a generator with the same seed and the same inputs
\* produce the same event list, event_id, session_id, auth_token_id and
\* timestamp of every event included.
C22_SameSeedSameEvents ==
    (Len(runs) = 2 /\ runs[1].seed = runs[2].seed
                   /\ runs[1].count = runs[2].count)
        => runs[1].events = runs[2].events

\* What the seed does fix: the two lists agree in length and, event by
\* event, in action, status and store.
C22_SameSeedSameShape ==
    Len(runs) = 2 =>
        /\ Len(runs[1].events) = Len(runs[2].events)
        /\ \A k \in 1..Len(runs[1].events) :
              /\ runs[1].events[k].action = runs[2].events[k].action
              /\ runs[1].events[k].status = runs[2].events[k].status

\* C23: within every journey generate_normal_user_journey returns, the
\* timestamps are non-decreasing in list order, whatever the gaps drawn and
\* whether or not the cart and checkout steps are taken.
C23_JourneyNonDecreasing ==
    prog = "journey" =>
        \A k \in 1..(Len(events) - 1) :
            fromisoformat(events[k].timestamp)
                <= fromisoformat(events[k + 1].timestamp)

\* A journey with five browse events that adds to the cart and checks out,
\* started on a clock reading between two seconds.
C23_Witness ==
    /\ prog = "journey"
    /\ Len(events) = 9
    /\ events[8].action = "add_to_cart"
    /\ events[9].action = "checkout"
    /\ fromisoformat(events[1].timestamp) % 1000 # 0

\* C24: every list generate_brute_force_attack returns has between 15 and 30
\* events, and each of them has status fail and carries neither session_id
\* nor user_id.
C24_AttackShape ==
    prog = "attack" =>
        /\ Len(events) >= 15
        /\ Len(events) <= 30
        /\ \A k \in 1..Len(events) :
              /\ events[k].status = "fail"
              /\ events[k].session_id = NULL
              /\ events[k].user_id = NULL

\* The longest attack, its attempts 2 seconds apart.
C24_Witness ==
    /\ prog = "attack"
    /\ Len(events) = 30
    /\ fromisoformat(events[30].timestamp)
          = fromisoformat(events[1].timestamp) + 29 * 2000
    /\ events[30].action = "auth_token_validated"

\* ------------------------------------------------------------ book store
\* The last request was a checkout that went through.
CheckedOut ==
    /\ response.handler = "checkout"
    /\ response.status_code = 201

\* The copies of a book a cart holds, over all its lines.
RECURSIVE Ordered(_, _)
Ordered(cart_items, book_id) ==
    IF cart_items = <<>> THEN 0
    ELSE (IF Head(cart_items).book_id = book_id
          THEN Head(cart_items).quantity ELSE 0)
         + Ordered(Tail(cart_items), book_id)

\* The carts of the users other than user_id are in d as they are in e.
OtherCartsSame(d, e, user_id) ==
    /\ DOMAIN d.carts \ {user_id} = DOMAIN e.carts \ {user_id}
    /\ \A v \in DOMAIN d.carts \ {user_id} : d.carts[v] = e.carts[v]

\* C25: a checkout answered 201 has added one order with status confirmed
\* for the user, has left that user's cart empty and has reduced the
\* stock_count of every book by the copies of it the cart held, that is by
\* nothing for a book that was not ordered; the carts of the other users
\* are as they were.
C25_CheckoutEffects ==
    CheckedOut =>
        LET u == response.current_user.id
            before == response.before
            cart_items == get_cart(before, u)
        IN  /\ Len(db.orders) = Len(before.orders) + 1
            /\ SubSeq(db.orders, 1, Len(before.orders)) = before.orders
            /\ db.orders[Len(db.orders)].user_id = u
            /\ db.orders[Len(db.orders)].status = "confirmed"
            /\ get_cart(db, u) = <<>>
            /\ \A b \in DOMAIN before.books :
                  db.books[b].stock_count =
                      before.books[b].stock_count - Ordered(cart_items, b)
            /\ DOMAIN db.books = DOMAIN before.books
            /\ OtherCartsSame(db, before, u)

\* A checkout went through while another user held a cart with a line in
\* it and one book of the catalog was not ordered.
C25_Witness ==
    /\ CheckedOut
    /\ \E v \in DOMAIN db.carts :
          v # response.current_user.id /\ db.carts[v] # <<>>
    /\ \E b \in DOMAIN db.books :
          /\ Ordered(get_cart(response.before, response.current_user.id), b) = 0
          /\ db.books[b].stock_count = response.before.books[b].stock_count
    /\ \E b \in DOMAIN db.books :
          db.books[b].stock_count < response.before.books[b].stock_count

\* The last request asked an authenticated user's cart, in a known store,
\* to drop a cart item id the cart does not hold.
RemovedAbsentItem ==
    /\ response.handler = "remove_from_cart"
    /\ response.current_user # Unset
    /\ is_valid_store(response.store_id)
    /\ \A k \in 1..Len(get_cart(response.before, response.current_user.id)) :
          get_cart(response.before, response.current_user.id)[k].id
              # response.cart_item_id

\* C26: removing a cart item id that is not in the authenticated user's
\* cart is answered 404 and leaves the cart unchanged, whether the cart was
\* never created, is empty or holds other items.
C26_AbsentItemIs404 ==
    RemovedAbsentItem =>
        /\ response.status_code = 404
        /\ db.carts = response.before.carts

\* What the handler does for an absent id: the carts stay as they were,
\* and the answer is 404 only when the user never had a cart, 204 otherwise.
C26_AbsentItemAnswer ==
    RemovedAbsentItem =>
        /\ db.carts = response.before.carts
        /\ response.status_code =
              IF response.current_user.id \in DOMAIN response.before.carts
              THEN 204 ELSE 404

\* C27: as long as only carts were changed (no order was made), no line of
\* a cart holds more copies of a book than the book's stock_count.
C27_CartWithinStock ==
    db.orders = <<>> =>
        \A u \in DOMAIN db.carts : \A k \in 1..Len(db.carts[u]) :
            db.carts[u][k].quantity
                <= db.books[db.carts[u][k].book_id].stock_count

\* One request for more copies than the stock holds is answered 400 with
\* the insufficient-stock detail and changes nothing.
C27_SingleRequestRejected ==
    ( /\ response.handler = "add_to_cart"
      /\ response.current_user # Unset
      /\ CartItemCreate(response.quantity)
      /\ is_valid_store(response.store_id)
      /\ response.book_id \in DOMAIN response.before.books
      /\ response.before.books[response.book_id].stock_count
             < response.quantity )
    => /\ response.status_code = 400
       /\ db = response.before

\* ---------------------------------------------------------------- upserts
\* The timestamp of the last event of a batch whose field has the value,
\* or the given one when the batch has no such event.
LastTimestamp(batch, field, value, otherwise) ==
    LET hits == {k \in 1..Len(batch) : batch[k][field] = value}
    IN  IF hits = {} THEN otherwise
        ELSE batch[CHOOSE h \in hits : \A o \in hits : o <= h].timestamp

\* One call of load_events_batch, seen from the nodes the graph held before
\* it: each is still there under its key, with its first_seen / created_at
\* as it was; last_seen / last_activity is the timestamp of the last event
\* of the batch that names the node, and is as it was when none does; the
\* Event nodes are as they were.
UpsertStep ==
    calls' # calls =>
        LET batch == calls'[Len(calls')]
        IN  /\ \A j \in 1..Len(graph.ips) :
                  graph'.ips[j] =
                      [graph.ips[j] EXCEPT !.last_seen =
                          LastTimestamp(batch, "client_ip",
                                        graph.ips[j].address, @)]
            /\ \A j \in 1..Len(graph.sessions) :
                  graph'.sessions[j] =
                      [graph.sessions[j] EXCEPT !.last_activity =
                          LastTimestamp(batch, "session_id",
                                        graph.sessions[j].session_id, @)]
            /\ \A j \in 1..Len(graph.users) :
                  graph'.users[j] = graph.users[j]
            /\ \A j \in 1..Len(graph.stores) :
                  graph'.stores[j] = graph.stores[j]
            /\ \A j \in 1..Len(graph.events) :
                  graph'.events[j] = graph.events[j]

\* C28: load_events_batch changes, of a node that already exists, only the
\* last-seen watermark (IPAddress.last_seen, Session.last_activity), which
\* becomes the timestamp of the event applied last; IPAddress.first_seen,
\* Session.created_at, User.created_at and Store.created_at keep the value
\* of the node's creation, and no other property of any node changes.
C28_UpsertKeepsCreation == [][UpsertStep]_vars

\* An IPAddress, a Session, a User and a Store have each been matched by a
\* later event with another timestamp: the watermarks have moved off the
\* creation values, and created_at is not the later event's timestamp.
C28_Witness ==
    /\ Len(graph.events) = 2
    /\ graph.events[1].timestamp # graph.events[2].timestamp
    /\ Len(graph.ips) = 1 /\ Len(graph.sessions) = 1
    /\ Len(graph.users) = 1 /\ Len(graph.stores) = 1
    /\ graph.ips[1].first_seen = graph.events[1].timestamp
    /\ graph.ips[1].last_seen = graph.events[2].timestamp
    /\ graph.sessions[1].created_at = graph.events[1].timestamp
    /\ graph.sessions[1].last_activity = graph.events[2].timestamp
    /\ graph.users[1].created_at = graph.events[1].timestamp
    /\ graph.stores[1].created_at = graph.events[1].timestamp
    /\ Len(calls) = 2

\* ------------------------------------------------------- NEXT_EVENT chains
\* The NEXT_EVENT relationships that leave, and that reach, an Event node.
Outgoing(g, e) ==
    {p \in BagToSet(g.next_event) : p.from = e}
Incoming(g, e) ==
    {p \in BagToSet(g.next_event) : p.to = e}

\* C30: whenever the deriver has run after the last load, every Event has
\* at most one outgoing and at most one incoming NEXT_EVENT relationship.
C30_SingleChain ==
    derived =>
        \A e \in 1..Len(graph.events) :
            /\ Cardinality(Outgoing(graph, e)) <= 1
            /\ Cardinality(Incoming(graph, e)) <= 1
            /\ \A p \in BagToSet(graph.next_event) :
                  CopiesIn(p, graph.next_event) = 1

\* When the graph holds the events of one load only, its deriver pass
\* leaves single chains: they break only when a later pass adds to the
\* relationships of an earlier one.
C30_FirstLoadSingleChain ==
    (pc = "done" /\ Len(graph.events) = Len(corpus)) =>
        \A e \in 1..Len(graph.events) :
            /\ Cardinality(Outgoing(graph, e)) <= 1
            /\ Cardinality(Incoming(graph, e)) <= 1

\* ------------------------------------------------------ the corpus length
\* generate-test-data.py has written its output file.
CorpusWritten == prog = "generate-test-data.py" /\ output # Unset

\* C29: the list generate_test_data(count) returns, which main writes to
\* the output file, has exactly count events.
C29_ExactlyCount ==
    CorpusWritten => Len(output.written) = gen.count

\* The list never has more than count events, and it is empty for count 1,
\* where the three targets int(count * 0.85), int(count * 0.10) and
\* int(count * 0.05) are all 0 and no loop runs.
C29_AtMostCount ==
    CorpusWritten =>
        /\ Len(output.written) <= gen.count
        /\ gen.count = 1 => Len(output.written) = 0

====
